---- MODULE Spec2Model ----
(***************************************************************************)
(* A model of fetchbrowser: the resolution of a browser version to a       *)
(* Chromium snapshot build (ChromiumBuilds, ChromiumBuildsPage,            *)
(* ChromiumHistory, ChromiumReleaseMatches) and the streaming extraction   *)
(* of the downloaded archive (run() in main.rs).                           *)
(*                                                                         *)
(* A Rust String is a sequence of one-character strings, so that split,    *)
(* starts_with and parse are computed as the code computes them.           *)
(* Option<T> is a sequence of length 0 (None) or 1 (Some(x)).              *)
(***************************************************************************)
EXTENDS Integers, Sequences, FiniteSets, TLC

\* ------------------------------------------------------------------------
\* Strings
\* ------------------------------------------------------------------------

None == <<>>
Some(x) == <<x>>

Digits == <<"0", "1", "2", "3", "4", "5", "6", "7", "8", "9">>

IsDigit(c) == \E i \in 1..10 : Digits[i] = c

DigitVal(c) == (CHOOSE i \in 1..10 : Digits[i] = c) - 1

\* str::split(sep): the segments between the separators; a string with n
\* separators has n + 1 segments, the empty string has one (empty) segment.
RECURSIVE SplitFrom(_, _, _, _)
SplitFrom(s, sep, i, cur) ==
    IF i > Len(s) THEN <<cur>>
    ELSE IF s[i] = sep THEN <<cur>> \o SplitFrom(s, sep, i + 1, <<>>)
    ELSE SplitFrom(s, sep, i + 1, Append(cur, s[i]))

Split(s, sep) == SplitFrom(s, sep, 1, <<>>)

\* str::starts_with(prefix)
StartsWith(s, p) == Len(p) <= Len(s) /\ SubSeq(s, 1, Len(p)) = p

\* str::ends_with(suffix)
EndsWith(s, p) == Len(p) <= Len(s) /\ SubSeq(s, Len(s) - Len(p) + 1, Len(s)) = p

\* usize::MAX = 18446744073709551615, as its decimal digits.
UsizeMaxDigits ==
    <<"1", "8", "4", "4", "6", "7", "4", "4", "0", "7",
      "3", "7", "0", "9", "5", "5", "1", "6", "1", "5">>

RECURSIVE StripZeros(_)
StripZeros(d) == IF d # <<>> /\ Head(d) = "0" THEN StripZeros(Tail(d)) ELSE d

\* d > m for two digit strings of the same length (lexicographic order).
RECURSIVE DigitsGreater(_, _)
DigitsGreater(d, m) ==
    IF d = <<>> THEN FALSE
    ELSE IF DigitVal(Head(d)) # DigitVal(Head(m))
         THEN DigitVal(Head(d)) > DigitVal(Head(m))
         ELSE DigitsGreater(Tail(d), Tail(m))

\* The checked multiply-and-add of the parse overflows exactly when the
\* number denoted exceeds usize::MAX.
Overflows(d) ==
    LET z == StripZeros(d) IN
    \/ Len(z) > Len(UsizeMaxDigits)
    \/ Len(z) = Len(UsizeMaxDigits) /\ DigitsGreater(z, UsizeMaxDigits)

RECURSIVE DigitsValue(_, _)
DigitsValue(d, acc) ==
    IF d = <<>> THEN acc ELSE DigitsValue(Tail(d), acc * 10 + DigitVal(Head(d)))

\* str::parse::<usize>(): Some(n) or None (the error). An empty string, a
\* lone sign, a '-' and any non-digit are errors; one leading '+' is
\* accepted; a value above usize::MAX is an error.
ParseUsize(s) ==
    IF s = <<>> THEN None
    ELSE IF Len(s) = 1 /\ s[1] \in {"+", "-"} THEN None
    ELSE LET d == IF s[1] = "+" THEN Tail(s) ELSE s IN
         IF \E i \in 1..Len(d) : ~IsDigit(d[i]) THEN None
         ELSE IF Overflows(d) THEN None
         ELSE Some(DigitsValue(d, 0))

\* ------------------------------------------------------------------------
\* State
\* ------------------------------------------------------------------------

VARIABLES
    builds,      \* ChromiumBuilds.0: the catalog, a list of prefix strings
    find_pos,    \* ChromiumBuilds::find: the find_pos of the last call
    find_os,     \* ChromiumBuilds::find: the os_prefix of the last call
    found,       \* ChromiumBuilds::find: what the last call returned
    find_done,   \* whether find has been called
    history,     \* ChromiumHistory.0: the version of each record, in order
    hist_query,  \* ChromiumHistory::find: the version argument of the call
    matched,     \* ChromiumHistory::find: the records returned (references
                 \* into history, as indices), in the order returned
    hist_done,   \* whether ChromiumHistory::find has been called
    next_page_token, \* ChromiumBuildsPage.next_page_token
    page_done,       \* ChromiumBuildsPage.done
    calls,           \* the calls of ChromiumBuildsPage::next so far: whether
                     \* a page was requested, the pageToken sent, the
                     \* response, and what next() returned
    cache,               \* the builds-<prefix>.json file of the cache directory
    init_state,          \* ChromiumBuilds::init: where it is, or how it ended
    unwrapped_page_list, \* ChromiumBuilds::init: the pages collected so far
    iter,          \* ChromiumReleaseMatches.iter: the candidates not yet tried
                   \* (references into history, as indices)
    match_prefix,  \* ChromiumReleaseMatches.prefix: the platform's tag
    match_state,   \* "new" before match_version, "ready" after it
    resolution,    \* run() of main.rs: None, or Some of its requests and outcome
    deps_log,      \* every deps.json request so far: the call of next() that
                   \* made it, the candidate, and the response
    next_rets,     \* what each call of ChromiumReleaseMatches::next returned
    stream,        \* run(): the entries of the archive, in stream order
    ex_state,      \* run(): where it is, or how it ended
    ex_pos,        \* run(): the number of entries read from the stream
    prefix,        \* run(): the archive's root directory name ("" until set)
    version_list,  \* run(): the versions found in the entry names
    fs0,           \* the filesystem before run()
    fs,            \* the filesystem: its directories and its files
    writes,        \* the entries that were written: index and path
    extractor,     \* which extraction runs: "run" (main.rs) or "download"
                   \* (chromium/download.rs); "idle" before either
    ex_err,        \* the path the extraction's I/O error names, None when
                   \* no create_dir_all, open or copy of an entry has failed
    haystack,      \* find_sequence: the haystack argument, a list of bytes
    needle,        \* find_sequence: the needle argument, a list of bytes
    seq_ret,       \* find_sequence: how the call ended and what it returned
    ver_str,       \* ChromiumVersion::from_str: the string argument
    ver_parsed,    \* ChromiumVersion::from_str: what the call returned
    ver_formatted, \* ChromiumVersion::to_string: the version it was called on
    ver_list,      \* find_latest_version: the list argument
    latest_version, \* find_latest_version: what the call returned
    ff_state,      \* download_ff: where the call is, or how it ended
    ff_cache,      \* the cache file firefox-releases.json
    ff_query,      \* download_ff: the version argument
    ff_releases,   \* FirefoxVersionSpider.0: the release names
    ff_matched,    \* download_ff: matched_version, None before the match
    ff_zip         \* download_ff: zip_content, None before the download

findVars == <<builds, find_pos, find_os, found, find_done>>
histVars == <<history, hist_query, matched, hist_done>>
pageVars == <<next_page_token, page_done, calls>>
initVars == <<cache, init_state, unwrapped_page_list>>
matchVars == <<iter, match_prefix, match_state, deps_log, next_rets, resolution>>
runVars == <<stream, ex_state, ex_pos, prefix, version_list, fs0, fs, writes, extractor, ex_err>>

seqVars == <<haystack, needle, seq_ret>>
verVars == <<ver_str, ver_parsed, ver_formatted, ver_list, latest_version>>
ffVars == <<ff_state, ff_cache, ff_query, ff_releases, ff_matched, ff_zip>>
utilVars == <<seqVars, verVars, ffVars>>

vars == <<findVars, histVars, pageVars, initVars, matchVars, runVars, utilVars>>

\* The components a specification does not exercise stay as constructed.
FindIdle ==
    /\ builds = <<>>
    /\ find_pos = 0
    /\ find_os = <<>>
    /\ found = None
    /\ find_done = FALSE

HistIdle ==
    /\ history = <<>>
    /\ hist_query = <<>>
    /\ matched = <<>>
    /\ hist_done = FALSE

\* ChromiumBuildsPage::new: no token, not done, nothing requested yet.
PageIdle ==
    /\ next_page_token = None
    /\ page_done = FALSE
    /\ calls = <<>>

CacheAbsent == [kind |-> "absent", list |-> <<>>]

InitIdle ==
    /\ cache = CacheAbsent
    /\ init_state = "idle"
    /\ unwrapped_page_list = <<>>

MatchIdle ==
    /\ iter = <<>>
    /\ match_prefix = <<>>
    /\ match_state = "idle"
    /\ resolution = <<>>
    /\ deps_log = <<>>
    /\ next_rets = <<>>

\* std::env::current_dir()
Cwd == <<"c", "w", "d">>

\* The tree when the program starts: its working directory, with nothing
\* in it.
StartFs == [dirs |-> {<<>>, <<Cwd>>}, files |-> {}]

RunIdle ==
    /\ stream = <<>>
    /\ ex_state = "idle"
    /\ ex_pos = 0
    /\ prefix = <<>>
    /\ version_list = <<>>
    /\ fs0 = StartFs
    /\ fs = StartFs
    /\ writes = <<>>
    /\ extractor = "idle"
    /\ ex_err = None

NotCalled == [kind |-> "not_called", value |-> None]

SeqIdle ==
    /\ haystack = <<>>
    /\ needle = <<>>
    /\ seq_ret = NotCalled

VerIdle ==
    /\ ver_str = <<>>
    /\ ver_parsed = NotCalled
    /\ ver_formatted = None
    /\ ver_list = <<>>
    /\ latest_version = NotCalled

FfIdle ==
    /\ ff_state = "idle"
    /\ ff_cache = CacheAbsent
    /\ ff_query = <<>>
    /\ ff_releases = <<>>
    /\ ff_matched = None
    /\ ff_zip = None

UtilIdle == SeqIdle /\ VerIdle /\ FfIdle

\* ------------------------------------------------------------------------
\* ChromiumBuilds::find (chromium/builds.rs, builds.rs)
\* ------------------------------------------------------------------------

Tolerance == 120

\* The filter_map closure: Some(rev) for a build that splits by '/' into
\* [prefix, rev, empty] with prefix == os_prefix, empty.is_empty() and rev
\* parsing as usize; None for every other build.
BuildRev_NoTagCheck(build, os_prefix) ==
    LET split == Split(build, "/") IN
    IF Len(split) = 3 /\ split[3] = <<>>
    THEN ParseUsize(split[2])
    ELSE None

BuildRev(build, os_prefix) ==
    LET split == Split(build, "/") IN
    IF Len(split) = 3 /\ split[1] = os_prefix /\ split[3] = <<>>
    THEN ParseUsize(split[2])
    ELSE None

\* self.0.iter().filter_map(..).collect(): the (build, rev) pairs, in
\* catalog order.
RECURSIVE FilterMapBuilds(_, _)
FilterMapBuilds(list, os_prefix) ==
    IF list = <<>> THEN <<>>
    ELSE LET r == BuildRev(Head(list), os_prefix) IN
         (IF r = None THEN <<>> ELSE <<[build |-> Head(list), rev |-> r[1]]>>)
             \o FilterMapBuilds(Tail(list), os_prefix)

\* list.sort_by(|a, b| a.1.cmp(&b.1)): a stable sort by revision.
RECURSIVE InsertByRev(_, _)
InsertByRev(sorted, x) ==
    IF sorted = <<>> THEN <<x>>
    ELSE IF x.rev < Head(sorted).rev THEN <<x>> \o sorted
    ELSE <<Head(sorted)>> \o InsertByRev(Tail(sorted), x)

RECURSIVE SortByRev(_)
SortByRev(list) ==
    IF list = <<>> THEN <<>>
    ELSE InsertByRev(SortByRev(SubSeq(list, 1, Len(list) - 1)), list[Len(list)])

\* Iterator::find(|build| build.1 >= find_pos): the first such pair.
FirstAtLeast_Any(list, pos) == IF list = <<>> THEN None ELSE Some(Head(list))

RECURSIVE FirstAtLeast(_, _)
FirstAtLeast(list, pos) ==
    IF list = <<>> THEN None
    ELSE IF Head(list).rev >= pos THEN Some(Head(list))
    ELSE FirstAtLeast(Tail(list), pos)

ChromiumBuilds_find_NoTolerance(list, pos, os_prefix) ==
    LET first == FirstAtLeast(SortByRev(FilterMapBuilds(list, os_prefix)), pos) IN
    IF first # None THEN Some(first[1].build) ELSE None

ChromiumBuilds_find(list, pos, os_prefix) ==
    LET first == FirstAtLeast(SortByRev(FilterMapBuilds(list, os_prefix)), pos) IN
    IF first # None /\ first[1].rev - pos <= Tolerance
    THEN Some(first[1].build)
    ELSE None

\* The operands of the usize subtraction build.1 - find_pos: Option::filter
\* runs its closure on the pair Iterator::find returned, if any.
SubtractionOperands(list, pos, os_prefix) ==
    LET first == FirstAtLeast(SortByRev(FilterMapBuilds(list, os_prefix)), pos) IN
    IF first # None THEN {[minuend |-> first[1].rev, subtrahend |-> pos]} ELSE {}

\* The catalog after a call of find: self.0 is only iterated, the pairs
\* are collected into a new Vec and that Vec is sorted.
RECURSIVE Builds(_)
Builds(pairs) == IF pairs = <<>> THEN <<>> ELSE <<Head(pairs).build>> \o Builds(Tail(pairs))

CatalogAfterFind_SortedInPlace(list, os_prefix) == Builds(SortByRev(FilterMapBuilds(list, os_prefix)))

CatalogAfterFind(list, os_prefix) == list

\* --- inputs of the find specification ---

WinX64 == <<"W", "i", "n", "_", "x", "6", "4">>
Mac == <<"M", "a", "c">>

OsPrefixes == {WinX64, Mac}

Prefix(tag, rev) == tag \o <<"/">> \o rev \o <<"/">>

P100 == Prefix(WinX64, <<"1", "0", "0">>)
PPlus100 == Prefix(WinX64, <<"+", "1", "0", "0">>)
P0100 == Prefix(WinX64, <<"0", "1", "0", "0">>)
P220 == Prefix(WinX64, <<"2", "2", "0">>)
P250 == Prefix(WinX64, <<"2", "5", "0">>)
P400 == Prefix(WinX64, <<"4", "0", "0">>)
PMac60 == Prefix(Mac, <<"6", "0">>)
PNotNumeric == Prefix(WinX64, <<"6", "a">>)
PNoTrailing == WinX64 \o <<"/", "7", "0">>
PThirdNotEmpty == WinX64 \o <<"/", "8", "0", "/", "x">>
POverflow == Prefix(WinX64, <<"1", "8", "4", "4", "6", "7", "4", "4", "0", "7",
                              "3", "7", "0", "9", "5", "5", "1", "6", "1", "6">>)

PrefixUniverse ==
    {P100, PPlus100, P0100, P220, P250, P400, PMac60, PNotNumeric, PNoTrailing,
     PThirdNotEmpty, POverflow}

Positions == {50, 99, 100, 200, 1000}

MaxBuilds == 3

SeqsUpTo(S, n) == UNION {[1..k -> S] : k \in 0..n}

FindInit ==
    /\ builds \in SeqsUpTo(PrefixUniverse, MaxBuilds)
    /\ find_pos = 0
    /\ find_os = <<>>
    /\ found = None
    /\ find_done = FALSE
    /\ HistIdle /\ PageIdle /\ InitIdle /\ MatchIdle /\ RunIdle /\ UtilIdle

\* A call releases.builds.find(pos, os_prefix): the catalog is borrowed
\* immutably. One call is made on each catalog.
Find(pos, os_prefix) ==
    /\ ~find_done
    /\ find_pos' = pos
    /\ find_os' = os_prefix
    /\ found' = ChromiumBuilds_find(builds, pos, os_prefix)
    /\ find_done' = TRUE
    /\ builds' = CatalogAfterFind(builds, os_prefix)
    /\ UNCHANGED <<histVars, pageVars, initVars, matchVars, runVars, utilVars>>

FindNext == \E pos \in Positions, os_prefix \in OsPrefixes : Find(pos, os_prefix)

SpecFind == FindInit /\ [][FindNext]_vars

\* ------------------------------------------------------------------------
\* Properties of ChromiumBuilds::find
\* ------------------------------------------------------------------------

\* A prefix of the shape <tag>/<revision>/, stated on the positions of its
\* separators: exactly two '/', the second one last, the tag before the
\* first, an unsigned integer between them.
SlashPositions(s) == {i \in 1..Len(s) : s[i] = "/"}

WellFormed(s, tag) ==
    \E i, j \in SlashPositions(s) :
        /\ i < j
        /\ SlashPositions(s) = {i, j}
        /\ j = Len(s)
        /\ SubSeq(s, 1, i - 1) = tag
        /\ ParseUsize(SubSeq(s, i + 1, j - 1)) # None

RevisionOf(s) ==
    LET i == CHOOSE k \in SlashPositions(s) : \A l \in SlashPositions(s) : k <= l
    IN  ParseUsize(SubSeq(s, i + 1, Len(s) - 1))[1]

\* C1: find(p, tag) returns the accepted entry with the smallest revision
\* >= p when that revision is at most p + 120, and None when no accepted
\* entry has a revision in [p, p + 120].
C1_FindNearestWithinTolerance ==
    find_done =>
        LET acc == {i \in 1..Len(builds) : WellFormed(builds[i], find_os)}
            atLeast == {i \in acc : RevisionOf(builds[i]) >= find_pos}
            inTol == {i \in atLeast : RevisionOf(builds[i]) - find_pos <= 120}
        IN  IF inTol = {} THEN found = None
            ELSE \E i \in inTol :
                    /\ found = Some(builds[i])
                    /\ \A j \in atLeast : RevisionOf(builds[i]) <= RevisionOf(builds[j])

\* The spec's example: revisions {100, 250, 400}, listed out of order, and
\* find(200) = 250.
C1_Witness ==
    /\ find_done
    /\ builds = <<P400, P100, P250>>
    /\ find_pos = 200
    /\ find_os = WinX64
    /\ found = Some(P250)

\* C7: find never returns a prefix that is not <tag>/<unsigned integer>/
\* for the requested tag, whatever the catalog and the target position.
C7_FoundIsWellFormed ==
    (find_done /\ found # None) =>
        /\ WellFormed(found[1], find_os)
        /\ \E i \in 1..Len(builds) : builds[i] = found[1]

\* Malformed prefixes and another platform's prefix, all nearer to the
\* target than the well-formed one that is returned.
C7_Witness ==
    /\ find_done
    /\ builds = <<PMac60, PNoTrailing, P100>>
    /\ find_pos = 50
    /\ find_os = WinX64
    /\ found = Some(P100)

\* The catalogs that hold the same prefixes as list, in every order.
Reorderings(list) ==
    LET n == Len(list)
        perms == {f \in [1..n -> 1..n] : \A a, b \in 1..n : a # b => f[a] # f[b]}
    IN  {[k \in 1..n |-> list[f[k]]] : f \in perms}

\* C29: find(p, tag) returns the same prefix on every catalog that holds
\* the same prefixes in another order, also when two accepted prefixes
\* parse to the same revision.
C29_FindIndependentOfOrder ==
    find_done =>
        \A other \in Reorderings(builds) :
            ChromiumBuilds_find(other, find_pos, find_os) = found

\* C31: in find the subtraction revision - find_pos is evaluated only with
\* revision >= find_pos: it does not underflow, whatever the catalog and
\* the position; when every accepted revision is below the position it is
\* not evaluated at all.
C31_SubtractionNeverUnderflows ==
    find_done =>
        LET ops == SubtractionOperands(builds, find_pos, find_os) IN
        /\ \A o \in ops : o.minuend >= o.subtrahend /\ o.minuend - o.subtrahend >= 0
        /\ (\A i \in 1..Len(builds) :
                WellFormed(builds[i], find_os) => RevisionOf(builds[i]) < find_pos) => ops = {}

\* The catalog's first accepted revision is below the position: the
\* subtraction is evaluated for 250 - 200 only.
C31_Witness ==
    /\ find_done
    /\ builds = <<P100, P250>>
    /\ find_pos = 200
    /\ find_os = WinX64
    /\ SubtractionOperands(builds, find_pos, find_os) = {[minuend |-> 250, subtrahend |-> 200]}
    /\ found = Some(P250)

\* ------------------------------------------------------------------------
\* ChromiumHistory::find (chromium/history.rs, history.rs)
\* ------------------------------------------------------------------------

\* Two characters whose UTF-8 encoding takes two bytes: e with acute accent
\* (U+00E9) and the superscript two (U+00B2), which is numeric and is not
\* an ASCII digit. Every other character of the model is ASCII.
EAcute == "e'"
SuperTwo == "^2"

\* char::len_utf8
Utf8Len(c) == IF c \in {EAcute, SuperTwo} THEN 2 ELSE 1

\* str::len(): the length in bytes.
RECURSIVE ByteLen(_)
ByteLen(s) == IF s = <<>> THEN 0 ELSE Utf8Len(Head(s)) + ByteLen(Tail(s))

\* str::chars().nth(n): the n-th character, counting from 0.
CharsNth(s, n) == IF n < Len(s) THEN Some(s[n + 1]) ELSE None

\* The filter closure of find: ver_len is the query's length in bytes and
\* is used as an index into the version's characters.
HistoryMatches(info_version, version) ==
    LET ver_len == ByteLen(version) IN
    \/ info_version = version
    \/ /\ CharsNth(info_version, ver_len) = Some(".")
       /\ StartsWith(info_version, version)

\* self.0.iter().filter(..).collect(): the matching records, in order.
RECURSIVE FilterHistory(_, _, _)
FilterHistory(list, version, i) ==
    IF i > Len(list) THEN <<>>
    ELSE (IF HistoryMatches(list[i], version) THEN <<i>> ELSE <<>>)
             \o FilterHistory(list, version, i + 1)

ChromiumHistory_find(list, version) == FilterHistory(list, version, 1)

\* --- inputs of the history specification ---

V11 == <<"1", "1">>
V11Dot == <<"1", "1", ".">>
V11_0_1 == <<"1", "1", ".", "0", ".", "1">>
V110 == <<"1", "1", "0">>
V110_0_0_0 == <<"1", "1", "0", ".", "0", ".", "0", ".", "0">>
V115_0_0_1 == <<"1", "1", "5", ".", "0", ".", "0", ".", "1">>

VSupX == <<SuperTwo, "x", ".">>
VSupDots == <<SuperTwo, ".", ".">>
VAcute1 == <<EAcute, ".", "1">>

\* The history is the JSON list as deserialised, cached or downloaded: the
\* version of a record is whatever string the file holds.
VersionUniverse ==
    {V11, V11Dot, V11_0_1, V110, V110_0_0_0, V115_0_0_1, VSupX, VSupDots, VAcute1}

\* The query is the user's: any string.
QueryUniverse ==
    {<<>>, <<"1">>, V11, V11Dot, V110, V11_0_1, <<"1", EAcute>>, <<EAcute, "1">>,
     <<SuperTwo>>, <<EAcute>>}

MaxHistory == 3

HistoryInit ==
    /\ history \in SeqsUpTo(VersionUniverse, MaxHistory)
    /\ hist_query = <<>>
    /\ matched = <<>>
    /\ hist_done = FALSE
    /\ FindIdle /\ PageIdle /\ InitIdle /\ MatchIdle /\ RunIdle /\ UtilIdle

HistoryFind(version) ==
    /\ ~hist_done
    /\ hist_query' = version
    /\ matched' = ChromiumHistory_find(history, version)
    /\ hist_done' = TRUE
    /\ UNCHANGED <<history, findVars, pageVars, initVars, matchVars, runVars, utilVars>>

HistoryNext == \E version \in QueryUniverse : HistoryFind(version)

SpecHistory == HistoryInit /\ [][HistoryNext]_vars

\* ------------------------------------------------------------------------
\* Properties of ChromiumHistory::find
\* ------------------------------------------------------------------------

Range(f) == {f[i] : i \in DOMAIN f}

\* The matching rule as documented: the version is the query, or it starts
\* with the query and its next character, the one right after the query,
\* is '.'.
MatchesQuery(info_version, version) ==
    \/ info_version = version
    \/ /\ StartsWith(info_version, version)
       /\ Len(info_version) > Len(version)
       /\ info_version[Len(version) + 1] = "."

\* C4: a record is returned iff its version equals the query, or starts
\* with the query and has '.' as the character right after it.
C4_HistoryMatchRule ==
    hist_done =>
        \A i \in 1..Len(history) :
            (i \in Range(matched)) <=> MatchesQuery(history[i], hist_query)

\* ------------------------------------------------------------------------
\* ChromiumBuildsPage::next (chromium/builds.rs)
\* ------------------------------------------------------------------------

\* What a page request can come back with: a parsed page (its prefixes and
\* its nextPageToken), a transport failure, or a body that does not parse.
Page(prefixes, token) == [kind |-> "page", prefixes |-> prefixes, token |-> token]
TransportErr == [kind |-> "transport_err", prefixes |-> <<>>, token |-> None]
FormatErr == [kind |-> "format_err", prefixes |-> <<>>, token |-> None]
NoResponse == [kind |-> "none", prefixes |-> <<>>, token |-> None]

\* Option<Result<Vec<String>>>, the item type of the iterator.
RetNone == [kind |-> "none", page |-> <<>>]
RetOk(p) == [kind |-> "ok", page |-> p]
RetErr(e) == [kind |-> e, page |-> <<>>]

\* next() when self.done is false: the fields after the call and the value
\* returned. The token and done change only when the response parsed.
PageFetch_DoneWhenEmpty(token, resp) ==
    IF resp.kind = "page"
    THEN [token |-> resp.token,
          done |-> resp.prefixes = <<>>,
          ret |-> IF resp.prefixes = <<>> THEN RetNone ELSE RetOk(resp.prefixes)]
    ELSE [token |-> token, done |-> FALSE, ret |-> RetErr(resp.kind)]

PageFetch_TokenLostOnError(token, resp) ==
    IF resp.kind = "page"
    THEN [token |-> resp.token,
          done |-> resp.token = None,
          ret |-> IF resp.prefixes = <<>> THEN RetNone ELSE RetOk(resp.prefixes)]
    ELSE [token |-> None, done |-> FALSE, ret |-> RetErr(resp.kind)]

PageFetch_ErrEndsLoop(token, resp) ==
    IF resp.kind = "page"
    THEN [token |-> resp.token,
          done |-> resp.token = None,
          ret |-> IF resp.prefixes = <<>> THEN RetNone ELSE RetOk(resp.prefixes)]
    ELSE [token |-> token, done |-> TRUE, ret |-> RetNone]

PageFetch(token, resp) ==
    IF resp.kind = "page"
    THEN [token |-> resp.token,
          done |-> resp.token = None,
          ret |-> IF resp.prefixes = <<>> THEN RetNone ELSE RetOk(resp.prefixes)]
    ELSE [token |-> token, done |-> FALSE, ret |-> RetErr(resp.kind)]

Call(requested, sent, resp, ret) ==
    [requested |-> requested, sent |-> sent, resp |-> resp, ret |-> ret]

\* --- inputs of the pagination specifications ---

Tokens == {"t1", "t2"}

PagePrefixLists == {<<>>, <<P100>>, <<P250, P100>>, <<P100, P100>>}

Pages == {Page(l, t) : l \in PagePrefixLists, t \in {None} \cup {Some(k) : k \in Tokens}}

Responses == Pages \cup {TransportErr, FormatErr}

MaxCalls == 3

PageInit ==
    /\ PageIdle
    /\ FindIdle /\ HistIdle /\ InitIdle /\ MatchIdle /\ RunIdle /\ UtilIdle

\* next() with self.done set: None, and no request.
PageNextDone ==
    /\ Len(calls) < MaxCalls
    /\ page_done
    /\ calls' = Append(calls, Call(FALSE, None, NoResponse, RetNone))
    /\ UNCHANGED <<next_page_token, page_done, findVars, histVars, initVars, matchVars, runVars, utilVars>>

\* next() with self.done clear: one request, carrying the stored token.
PageNextFetch(resp) ==
    /\ Len(calls) < MaxCalls
    /\ ~page_done
    /\ LET r == PageFetch(next_page_token, resp) IN
        /\ next_page_token' = r.token
        /\ page_done' = r.done
        /\ calls' = Append(calls, Call(TRUE, next_page_token, resp, r.ret))
    /\ UNCHANGED <<findVars, histVars, initVars, matchVars, runVars, utilVars>>

PageNext == PageNextDone \/ \E resp \in Responses : PageNextFetch(resp)

SpecPage == PageInit /\ [][PageNext]_vars

\* C5: once a page without continuation token has been received, the
\* enumeration is over: no page is requested afterwards and every later
\* next() returns None, whatever the earlier pages held; a page with no
\* prefixes and no token itself yields None.
C5_PaginationEndsAtTokenlessPage ==
    \A i \in 1..Len(calls) :
        (calls[i].resp.kind = "page" /\ calls[i].resp.token = None) =>
            /\ page_done
            /\ calls[i].resp.prefixes = <<>> => calls[i].ret = RetNone
            /\ \A j \in (i + 1)..Len(calls) :
                   ~calls[j].requested /\ calls[j].ret = RetNone

\* A page with prefixes and a token, then a page with prefixes and no
\* token, then a call that requests nothing and yields nothing.
C5_Witness ==
    /\ Len(calls) = 3
    /\ calls[1].resp = Page(<<P250, P100>>, Some("t1"))
    /\ calls[2].resp = Page(<<P100>>, None)
    /\ calls[2].ret = RetOk(<<P100>>)
    /\ ~calls[3].requested
    /\ calls[3].ret = RetNone

\* ------------------------------------------------------------------------
\* ChromiumBuilds::init (chromium/builds.rs)
\* ------------------------------------------------------------------------

CacheList(l) == [kind |-> "list", list |-> l]
\* A cache file whose content is not a JSON list of strings.
CacheCorrupt == [kind |-> "corrupt", list |-> <<>>]

\* unwrapped_page_list.into_iter().flatten().collect()
RECURSIVE Flatten(_)
Flatten(pages) == IF pages = <<>> THEN <<>> ELSE Head(pages) \o Flatten(Tail(pages))

\* The listing has at most MaxPages pages: the last one carries no token.
MaxPages == 3

InitResponses ==
    IF Len(calls) + 1 < MaxPages THEN Responses
    ELSE {r \in Responses : r.token = None}

InitInit ==
    /\ cache \in {CacheAbsent, CacheCorrupt} \cup {CacheList(l) : l \in PagePrefixLists}
    /\ init_state = "start"
    /\ unwrapped_page_list = <<>>
    /\ PageIdle
    /\ FindIdle /\ HistIdle /\ MatchIdle /\ RunIdle /\ UtilIdle

\* The cache file exists: the catalog is read from it, no request is made.
InitFromCache ==
    /\ init_state \in {"start", "again"}
    /\ cache.kind # "absent"
    /\ IF cache.kind = "list"
       THEN builds' = cache.list /\ init_state' = "ok"
       ELSE builds' = builds /\ init_state' = "format_err"
    /\ UNCHANGED <<find_pos, find_os, found, find_done, histVars, pageVars,
                   cache, unwrapped_page_list, matchVars, runVars, utilVars>>

\* No cache file: ChromiumBuildsPage::new, and the loop over the pages starts.
InitStartPaging ==
    /\ init_state \in {"start", "again"}
    /\ cache.kind = "absent"
    /\ init_state' = "paging"
    /\ next_page_token' = None
    /\ page_done' = FALSE
    /\ UNCHANGED <<findVars, histVars, matchVars, runVars, utilVars, calls, cache, unwrapped_page_list>>

\* The loop has ended (next() returned None): the pages are flattened, the
\* cache file is written and the catalog is returned. std::fs::write can
\* fail before the file exists or after it was created.
InitFinish_NoCacheWrite(pages, written) ==
    /\ unwrapped_page_list' = pages
    /\ cache' = cache
    /\ builds' = Flatten(pages)
    /\ init_state' = "ok"

InitFinish(pages, written) ==
    LET list == Flatten(pages) IN
    /\ unwrapped_page_list' = pages
    /\ \/ /\ written = "ok"
          /\ cache' = CacheList(list)
          /\ builds' = list
          /\ init_state' = "ok"
       \/ /\ written = "not_created"
          /\ cache' = cache
          /\ builds' = builds
          /\ init_state' = "io_err"
       \/ /\ written = "partial"
          /\ cache' = CacheCorrupt
          /\ builds' = builds
          /\ init_state' = "io_err"

WriteOutcomes == {"ok", "not_created", "partial"}

\* One iteration of `for page in pages`, self.done clear: a page is
\* requested; Some(Err) returns the error from init (page?), Some(Ok) is
\* pushed, None ends the loop.
InitPageFetch_RetryOnError(resp, written) ==
    /\ init_state = "paging"
    /\ ~page_done
    /\ LET r == PageFetch(next_page_token, resp) IN
        /\ next_page_token' = r.token
        /\ page_done' = r.done
        /\ calls' = Append(calls, Call(TRUE, next_page_token, resp, r.ret))
        /\ IF r.ret.kind = "ok"
           THEN /\ unwrapped_page_list' = Append(unwrapped_page_list, r.ret.page)
                /\ UNCHANGED <<builds, cache, init_state>>
           ELSE IF r.ret.kind = "none"
           THEN InitFinish(unwrapped_page_list, written)
           ELSE UNCHANGED <<init_state, builds, cache, unwrapped_page_list>>
    /\ UNCHANGED <<find_pos, find_os, found, find_done, histVars, matchVars, runVars, utilVars>>

InitPageFetch(resp, written) ==
    /\ init_state = "paging"
    /\ ~page_done
    /\ LET r == PageFetch(next_page_token, resp) IN
        /\ next_page_token' = r.token
        /\ page_done' = r.done
        /\ calls' = Append(calls, Call(TRUE, next_page_token, resp, r.ret))
        /\ IF r.ret.kind = "ok"
           THEN /\ unwrapped_page_list' = Append(unwrapped_page_list, r.ret.page)
                /\ UNCHANGED <<builds, cache, init_state>>
           ELSE IF r.ret.kind = "none"
           THEN InitFinish(unwrapped_page_list, written)
           ELSE /\ init_state' = r.ret.kind
                /\ UNCHANGED <<builds, cache, unwrapped_page_list>>
    /\ UNCHANGED <<find_pos, find_os, found, find_done, histVars, matchVars, runVars, utilVars>>

\* One iteration with self.done set: next() returns None without a request.
InitPageDone(written) ==
    /\ init_state = "paging"
    /\ page_done
    /\ calls' = Append(calls, Call(FALSE, None, NoResponse, RetNone))
    /\ InitFinish(unwrapped_page_list, written)
    /\ UNCHANGED <<find_pos, find_os, found, find_done, histVars, matchVars, runVars, utilVars,
                   next_page_token, page_done>>

\* init has returned Ok and is called again for the same platform.
InitAgain ==
    /\ init_state = "ok"
    /\ init_state' = "again"
    /\ UNCHANGED <<findVars, histVars, pageVars, matchVars, runVars, utilVars, cache, unwrapped_page_list>>

InitNext ==
    \/ InitFromCache
    \/ InitAgain
    \/ InitStartPaging
    \/ \E resp \in InitResponses, written \in WriteOutcomes : InitPageFetch(resp, written)
    \/ \E written \in WriteOutcomes : InitPageDone(written)

SpecInit == InitInit /\ [][InitNext]_vars

\* The pages received so far, in the order received.
ReceivedPages ==
    LET IsPage(c) == c.requested /\ c.resp.kind = "page" IN
    SelectSeq(calls, IsPage)

RECURSIVE FlattenPrefixes(_)
FlattenPrefixes(cs) ==
    IF cs = <<>> THEN <<>> ELSE Head(cs).resp.prefixes \o FlattenPrefixes(Tail(cs))

\* C6: the catalog built from the listing holds the prefixes of every page
\* up to and including the first page without token: the enumeration goes
\* on as long as the last page carried a token.
C6_CatalogHoldsEveryPage ==
    (init_state = "ok" /\ calls # <<>>) =>
        /\ ReceivedPages # <<>>
        /\ ReceivedPages[Len(ReceivedPages)].resp.token = None
        /\ builds = FlattenPrefixes(ReceivedPages)

\* C13: when a page request fails at the transport level or its body does
\* not parse, init ends there with that error: the caller gets no catalog
\* (the pages already fetched stay in the local list) and the cache file
\* is not written.
C13_EnumerationAllOrNothing ==
    \A k \in 1..Len(calls) :
        calls[k].resp.kind \in {"transport_err", "format_err"} =>
            /\ k = Len(calls)
            /\ init_state = calls[k].resp.kind
            /\ builds = <<>>
            /\ cache = CacheAbsent

\* C24: the catalog ChromiumBuilds::init builds from the listing holds no
\* prefix twice, whatever the pages repeat.
C24_CatalogUniqueByPrefix ==
    (init_state = "ok" /\ calls # <<>>) =>
        \A i, j \in 1..Len(builds) : i # j => builds[i] # builds[j]

\* After init has returned Ok the cache file holds the catalog; while the
\* enumeration runs, and when it has failed, no file has been written.
CacheFollowsEnumeration ==
    /\ init_state \in {"ok", "again"} => cache = CacheList(builds)
    /\ init_state \in {"paging", "transport_err", "format_err"} /\ calls # <<>> =>
           cache = CacheAbsent

\* An init that finds the cache file makes no request and returns the
\* cached list; an init that follows a successful one returns the same
\* catalog.
InitReadsCache ==
    /\ (init_state \in {"start", "again"} /\ cache.kind # "absent") =>
           /\ calls' = calls
           /\ cache.kind = "list" => (init_state' = "ok" /\ builds' = cache.list)
    /\ init_state = "again" => (init_state' = "ok" /\ builds' = builds /\ calls' = calls)

\* C26: ChromiumBuilds::init with the cache file present requests nothing
\* and returns the cached list; without it, it enumerates the listing and
\* writes the file only when the whole enumeration has succeeded, so that
\* the init that follows requests nothing and returns the same catalog.
C26_ReadThroughCache ==
    /\ []CacheFollowsEnumeration
    /\ [][InitReadsCache]_vars

\* Two pages were enumerated, the file was written, and the init that
\* followed returned the same catalog without a request.
C26_Witness ==
    /\ Len(calls) = 3
    /\ calls[1].resp = Page(<<P100>>, Some("t1"))
    /\ calls[2].resp = Page(<<P250, P100>>, None)
    /\ ~calls[3].requested
    /\ init_state = "ok"
    /\ builds = <<P100, P250, P100>>
    /\ cache = CacheList(builds)

\* A first page with a prefix and a token was fetched, the second request
\* failed.
C13_Witness ==
    /\ Len(calls) = 2
    /\ calls[1].resp = Page(<<P100>>, Some("t1"))
    /\ calls[2].resp = TransportErr
    /\ unwrapped_page_list = <<<<P100>>>>
    /\ init_state = "transport_err"
    /\ builds = <<>>
    /\ cache = CacheAbsent

\* ------------------------------------------------------------------------
\* ChromiumReleases::match_version, ChromiumReleaseMatches::next
\* (chromium/mod.rs)
\* ------------------------------------------------------------------------

\* What ChromiumHistoryInfo::deps can come back with: the parsed
\* ChromiumDepsInfo (chromium_base_position, an Option<String>, and
\* chromium_version), a transport failure, or a body that does not parse.
Deps(pos, version) == [kind |-> "deps", pos |-> pos, version |-> version]
DepsTransportErr == [kind |-> "transport_err", pos |-> None, version |-> ""]
DepsFormatErr == [kind |-> "format_err", pos |-> None, version |-> ""]

\* Option<Result<ChromiumReleaseItem>>, the item type of the iterator, and
\* Continue for a loop body that falls through to the next candidate.
NextNone == [kind |-> "none", rev_prefix |-> <<>>, version |-> ""]
NextOk(rev_prefix, version) == [kind |-> "ok", rev_prefix |-> rev_prefix, version |-> version]
NextErr(e) == [kind |-> e, rev_prefix |-> <<>>, version |-> ""]
Continue == [kind |-> "continue", rev_prefix |-> <<>>, version |-> ""]

\* The body of `for history in self.iter.by_ref()` for one candidate, given
\* the response to its deps request.
CandidateOutcome_StopOnNoPosition(r, list, os_prefix) ==
    IF r.kind # "deps" THEN NextErr(r.kind)
    ELSE IF r.pos = None THEN NextNone
    ELSE LET pos == ParseUsize(r.pos[1]) IN
         IF pos = None THEN Continue
         ELSE LET rev_prefix == ChromiumBuilds_find(list, pos[1], os_prefix) IN
              IF rev_prefix = None THEN Continue
              ELSE NextOk(rev_prefix[1], r.version)

CandidateOutcome_SkipOnError(r, list, os_prefix) ==
    IF r.kind # "deps" THEN Continue
    ELSE IF r.pos = None THEN Continue
    ELSE LET pos == ParseUsize(r.pos[1]) IN
         IF pos = None THEN Continue
         ELSE LET rev_prefix == ChromiumBuilds_find(list, pos[1], os_prefix) IN
              IF rev_prefix = None THEN Continue
              ELSE NextOk(rev_prefix[1], r.version)

CandidateOutcome(r, list, os_prefix) ==
    IF r.kind # "deps" THEN NextErr(r.kind)
    ELSE IF r.pos = None THEN Continue
    ELSE LET pos == ParseUsize(r.pos[1]) IN
         IF pos = None THEN Continue
         ELSE LET rev_prefix == ChromiumBuilds_find(list, pos[1], os_prefix) IN
              IF rev_prefix = None THEN Continue
              ELSE NextOk(rev_prefix[1], r.version)

\* Whether the loop body reaches self.releases.builds.find for response r.
FindCalled(r) == r.kind = "deps" /\ r.pos # None /\ ParseUsize(r.pos[1]) # None

\* Whether the loop body returns from next().
Returns_OnlyOnError(o) == o.kind \notin {"continue", "ok"}

Returns(o) == o.kind # "continue"

\* What next() returns when the loop runs out of candidates.
ExhaustedRet_Err == NextErr("format_err")

ExhaustedRet == NextNone

\* next(): the candidates left, the requests made and the value returned.
\* resps[i] is the response to the deps request of the i-th candidate left.
RECURSIVE MatchesLoop(_, _, _, _, _, _)
MatchesLoop(it, resps, list, os_prefix, call, log) ==
    IF it = <<>> THEN [iter |-> it, log |-> log, ret |-> ExhaustedRet]
    ELSE LET o == CandidateOutcome(Head(resps), list, os_prefix)
             log2 == Append(log, [call |-> call, cand |-> Head(it), resp |-> Head(resps)])
         IN  IF Returns(o) THEN [iter |-> Tail(it), log |-> log2, ret |-> o]
             ELSE MatchesLoop(Tail(it), Tail(resps), list, os_prefix, call, log2)

\* --- run() (main.rs), lines 40-69: from the version to the build ---

\* find_history: the records whose version starts with ver followed by '.'.
RECURSIVE FindHistoryFrom(_, _, _)
FindHistoryFrom(list, pfx, i) ==
    IF i > Len(list) THEN <<>>
    ELSE (IF StartsWith(list[i], pfx) THEN <<i>> ELSE <<>>)
             \o FindHistoryFrom(list, pfx, i + 1)

find_history(list, ver) == FindHistoryFrom(list, ver \o <<".">>, 1)

\* The filter_map closure of find_builds: build.split('/').nth(1) parsed.
MainBuildRev(build) ==
    LET split == Split(build, "/") IN
    IF Len(split) >= 2 THEN ParseUsize(split[2]) ELSE None

RECURSIVE MainFilterMapBuilds(_)
MainFilterMapBuilds(list) ==
    IF list = <<>> THEN <<>>
    ELSE LET r == MainBuildRev(Head(list)) IN
         (IF r = None THEN <<>> ELSE <<[build |-> Head(list), rev |-> r[1]]>>)
             \o MainFilterMapBuilds(Tail(list))

\* list.into_iter().rev().find(|build| build.1 <= find_pos)
RECURSIVE LastAtMost(_, _)
LastAtMost(list, pos) ==
    IF list = <<>> THEN None
    ELSE IF list[Len(list)].rev <= pos THEN Some(list[Len(list)])
    ELSE LastAtMost(SubSeq(list, 1, Len(list) - 1), pos)

find_builds(build_list, pos) ==
    LastAtMost(SortByRev(MainFilterMapBuilds(build_list)), pos)

\* How the resolution of run() ends: with (prefix, revision), or with an
\* error: the one of a failed request, "no_position" or "no_build".
RunOk(pfx, revision) == [kind |-> "ok", prefix |-> pfx, revision |-> revision]
RunErr(e) == [kind |-> e, prefix |-> <<>>, revision |-> 0]

\* `for history in matched_history_list`: a failed fetch_deps returns, the
\* first position that parses breaks the loop.
RECURSIVE PositionLoop(_, _, _)
PositionLoop(cands, resps, log) ==
    IF cands = <<>> THEN [log |-> log, err |-> "", pos |-> None]
    ELSE LET r == Head(resps)
             log2 == Append(log, [cand |-> Head(cands), resp |-> r])
         IN  IF r.kind # "deps" THEN [log |-> log2, err |-> r.kind, pos |-> None]
             ELSE IF r.pos # None /\ ParseUsize(r.pos[1]) # None
                  THEN [log |-> log2, err |-> "", pos |-> ParseUsize(r.pos[1])]
                  ELSE PositionLoop(Tail(cands), Tail(resps), log2)

\* What run() answers when no candidate gave a position.
NoPositionRet == RunErr("no_position")

\* list_resp is how get_build_list ends: "ok" with list, or a failure.
RunResolution(cands, resps, list_resp, list) ==
    LET l == PositionLoop(cands, resps, <<>>) IN
    [log |-> l.log,
     ret |-> IF l.err # "" THEN RunErr(l.err)
             ELSE IF l.pos = None THEN NoPositionRet
             ELSE IF list_resp # "ok" THEN RunErr(list_resp)
             ELSE LET b == find_builds(list, l.pos[1]) IN
                  IF b = None THEN RunErr("no_build")
                  ELSE RunOk(b[1].build, b[1].rev)]

\* --- inputs of the resolver specification ---

\* The history holds the versions 11.0.0, 11.0.1, ...; the query "11"
\* matches them all.
CandidateVersion(i) == <<"1", "1", ".", "0", ".", Digits[i]>>

MaxCandidates == 3

MaxNextCalls == 2

ResolveCatalogs == {<<>>, <<P250, P100>>, <<PMac60, P250>>}

DepsResponses ==
    {Deps(None, "vA"),
     Deps(Some(<<"5", "0">>), "vA"),
     Deps(Some(<<"5", "0">>), "vB"),
     Deps(Some(<<"2", "0", "0">>), "vB"),
     Deps(Some(<<"1", "0", "0", "0">>), "vA"),
     Deps(Some(<<"x", "1">>), "vA"),
     DepsTransportErr,
     DepsFormatErr}

\* What run() is asked for: a major version, or the full version of the
\* first record of the history.
RunQueries == {V11, CandidateVersion(1)}

\* What match_version is asked for: a major version, the full version of
\* the second record of the history, or a character of two bytes.
MatchQueries == {V11, CandidateVersion(2), <<EAcute>>}

\* The histories of the resolver: 11.0.0, 11.0.1, ... up to MaxCandidates
\* records, or a record whose version starts with a character of two
\* bytes behind 11.0.0.
MatchHistories ==
    {[i \in 1..n |-> CandidateVersion(i)] : n \in 0..MaxCandidates}
        \cup {<<CandidateVersion(1), VAcute1>>}

MatchInit ==
    /\ builds \in ResolveCatalogs
    /\ find_pos = 0 /\ find_os = <<>> /\ found = None /\ find_done = FALSE
    /\ history \in MatchHistories
    /\ hist_query = <<>> /\ matched = <<>> /\ hist_done = FALSE
    /\ iter = <<>>
    /\ match_prefix = WinX64
    /\ match_state = "new"
    /\ deps_log = <<>>
    /\ next_rets = <<>>
    /\ resolution = None
    /\ PageIdle /\ InitIdle /\ RunIdle /\ UtilIdle

\* match_version(version): ChromiumReleaseMatches::new over history.find.
MatchVersion(version) ==
    /\ match_state = "new"
    /\ hist_query' = version
    /\ matched' = ChromiumHistory_find(history, version)
    /\ hist_done' = TRUE
    /\ iter' = matched'
    /\ match_state' = "ready"
    /\ UNCHANGED <<history, findVars, pageVars, initVars, runVars, utilVars, match_prefix, deps_log,
                   next_rets, resolution>>

\* One call of next(); resps[i] answers the deps request of the i-th
\* candidate left and is one of answers.
MatchesNextFrom(answers) ==
    /\ match_state = "ready"
    /\ Len(next_rets) < MaxNextCalls
    /\ \E resps \in [1..Len(iter) -> answers] :
        LET r == MatchesLoop(iter, resps, builds, match_prefix, Len(next_rets) + 1, deps_log) IN
        /\ iter' = r.iter
        /\ deps_log' = r.log
        /\ next_rets' = Append(next_rets, r.ret)
        /\ builds' = IF \E k \in (Len(deps_log) + 1)..Len(r.log) : FindCalled(r.log[k].resp)
                      THEN CatalogAfterFind(builds, match_prefix)
                      ELSE builds
    /\ UNCHANGED <<find_pos, find_os, found, find_done, histVars, pageVars, initVars, runVars, utilVars,
                   match_prefix, match_state, resolution>>

MatchesNext == MatchesNextFrom(DepsResponses)

\* The resolution of run() in main.rs, from find_history to find_builds.
RunResolve(version, resps, list_resp) ==
    /\ match_state = "new"
    /\ hist_query' = version
    /\ matched' = find_history(history, version)
    /\ hist_done' = TRUE
    /\ resolution' = Some(RunResolution(matched', resps, list_resp, builds))
    /\ match_state' = "run_done"
    /\ UNCHANGED <<history, findVars, pageVars, initVars, runVars, utilVars, iter, match_prefix,
                   deps_log, next_rets>>

MatchNext ==
    \/ \E version \in MatchQueries : MatchVersion(version)
    \/ MatchesNext
    \/ \E version \in RunQueries, resps \in [1..Len(history) -> DepsResponses],
          list_resp \in {"ok", "transport_err", "format_err"} :
              RunResolve(version, resps, list_resp)

SpecMatch == MatchInit /\ [][MatchNext]_vars

\* ------------------------------------------------------------------------
\* Properties of ChromiumReleaseMatches::next
\* ------------------------------------------------------------------------

\* The catalog entries a position resolves to: the well-formed prefixes of
\* the platform with the smallest revision >= p, if that is at most p + 120.
NearestPrefixes(p, tag) ==
    LET acc == {i \in 1..Len(builds) : WellFormed(builds[i], tag)}
        atLeast == {i \in acc : RevisionOf(builds[i]) >= p}
    IN  {builds[i] : i \in {k \in atLeast :
            /\ RevisionOf(builds[k]) <= p + 120
            /\ \A j \in atLeast : RevisionOf(builds[k]) <= RevisionOf(builds[j])}}

\* A deps response with a commit position that parses and has a build
\* within tolerance.
Resolvable(r) ==
    /\ r.kind = "deps"
    /\ r.pos # None
    /\ ParseUsize(r.pos[1]) # None
    /\ NearestPrefixes(ParseUsize(r.pos[1])[1], match_prefix) # {}

\* A deps response that was received and parsed, but whose commit position
\* is absent, is no unsigned integer, or has no build within tolerance.
Recoverable(r) == r.kind = "deps" /\ ~Resolvable(r)

\* The requests made by the c-th call of next().
RequestsOfCall(c) == {k \in 1..Len(deps_log) : deps_log[k].call = c}

\* Whether every candidate had been tried when the c-th call returned.
ExhaustedAfterCall(c) ==
    Cardinality({k \in 1..Len(deps_log) : deps_log[k].call <= c}) = Len(matched)

\* C2: a candidate whose commit position is absent, unparsable or without
\* a build within tolerance does not end the search: the same call of
\* next() goes on to the next candidate (and ends with None only when
\* there is none left); when the candidates before a resolving one are all
\* of that kind, the call returns the resolving candidate's prefix and version.
C2_LocalRecovery ==
    \A k \in 1..Len(deps_log) :
        LET c == deps_log[k].call IN
        /\ Recoverable(deps_log[k].resp) =>
              IF k < Len(matched)
              THEN /\ k + 1 <= Len(deps_log)
                   /\ deps_log[k + 1].call = c
                   /\ deps_log[k + 1].cand = matched[k + 1]
              ELSE next_rets[c] = NextNone
        /\ ( /\ Resolvable(deps_log[k].resp)
             /\ \A j \in RequestsOfCall(c) : j < k => Recoverable(deps_log[j].resp) ) =>
              /\ next_rets[c].kind = "ok"
              /\ next_rets[c].version = deps_log[k].resp.version
              /\ next_rets[c].rev_prefix \in
                     NearestPrefixes(ParseUsize(deps_log[k].resp.pos[1])[1], match_prefix)

\* The spec's example: the first two candidates have no commit position,
\* the third resolves, and the result is the third's.
C2_Witness ==
    /\ Len(matched) = 3
    /\ builds = <<P250, P100>>
    /\ match_prefix = WinX64
    /\ Len(deps_log) = 3
    /\ deps_log[1].resp = Deps(None, "vA")
    /\ deps_log[2].resp = Deps(None, "vA")
    /\ deps_log[3].resp = Deps(Some(<<"2", "0", "0">>), "vB")
    /\ next_rets = <<NextOk(P250, "vB")>>

\* C3: the candidates are tried in the order supplied, each one's deps
\* requested once; a call of next() returns at the first candidate it
\* reaches that resolves, with that candidate's result, and requests
\* nothing for the candidates after it.
C3_InOrderUntilFirstResolvable ==
    /\ Len(deps_log) <= Len(matched)
    /\ \A k \in 1..Len(deps_log) : deps_log[k].cand = matched[k]
    /\ match_state = "ready" => iter = SubSeq(matched, Len(deps_log) + 1, Len(matched))
    /\ \A c \in 1..Len(next_rets) :
        /\ \A k \in RequestsOfCall(c) :
              Resolvable(deps_log[k].resp) =>
                  /\ \A j \in RequestsOfCall(c) : j <= k
                  /\ next_rets[c].kind = "ok"
                  /\ next_rets[c].version = deps_log[k].resp.version
                  /\ next_rets[c].rev_prefix \in
                         NearestPrefixes(ParseUsize(deps_log[k].resp.pos[1])[1], match_prefix)
        /\ next_rets[c].kind = "ok" =>
              \E k \in RequestsOfCall(c) : Resolvable(deps_log[k].resp)

\* The second of three candidates resolves: the call returns its result and
\* the third candidate's deps are not requested.
C3_Witness ==
    /\ Len(matched) = 3
    /\ Len(next_rets) = 1
    /\ Len(deps_log) = 2
    /\ deps_log[1].resp = Deps(Some(<<"1", "0", "0", "0">>), "vA")
    /\ deps_log[2].resp = Deps(Some(<<"5", "0">>), "vB")
    /\ next_rets[1] = NextOk(P100, "vB")
    /\ iter = <<3>>

\* A deps response of run() that was received and gives no position.
NoPosition(r) == r.kind = "deps" /\ (r.pos = None \/ ParseUsize(r.pos[1]) = None)

\* C8: a call of next() that has tried every candidate left, each deps
\* response received and none resolving (or with no candidate left at
\* all), returns None: not a build, and not the Err a transport or format
\* failure returns. In run() of main.rs, when every candidate was tried and
\* none gave a position, the outcome is the no-position error, which is
\* neither a build nor the error of a failed request.
C8_ExhaustionIsNotFound ==
    /\ \A c \in 1..Len(next_rets) :
        /\ ( /\ ExhaustedAfterCall(c)
             /\ \A k \in RequestsOfCall(c) : Recoverable(deps_log[k].resp) ) =>
              /\ next_rets[c] = NextNone
              /\ next_rets[c].kind \notin {"ok", "transport_err", "format_err"}
        /\ next_rets[c].kind = "none" =>
              /\ ExhaustedAfterCall(c)
              /\ \A k \in RequestsOfCall(c) : Recoverable(deps_log[k].resp)
    /\ resolution # None =>
        LET log == resolution[1].log
            ret == resolution[1].ret
            exhausted == /\ Len(log) = Len(matched)
                         /\ \A k \in 1..Len(log) : NoPosition(log[k].resp)
        IN  /\ exhausted => ret = RunErr("no_position")
            /\ ret.kind = "no_position" => exhausted
            /\ ret.kind \in {"ok", "no_build"} =>
                   \E k \in 1..Len(log) : ~NoPosition(log[k].resp)

\* Three candidates: no commit position, an unparsable one, one without a
\* build within tolerance; the call returns None.
C8_Witness ==
    /\ Len(matched) = 3
    /\ builds = <<P250, P100>>
    /\ match_prefix = WinX64
    /\ Len(deps_log) = 3
    /\ deps_log[1].resp = Deps(None, "vA")
    /\ deps_log[2].resp = Deps(Some(<<"x", "1">>), "vA")
    /\ deps_log[3].resp = Deps(Some(<<"1", "0", "0", "0">>), "vA")
    /\ next_rets = <<NextNone>>

\* C14: a deps request that fails at the transport level or whose body
\* does not parse ends the resolution with that error: the call of next()
\* returns Some(Err) and run() returns the error, and in both the failed
\* request is the last one made.
C14_DepsErrorAborts ==
    /\ \A k \in 1..Len(deps_log) :
        deps_log[k].resp.kind \in {"transport_err", "format_err"} =>
            LET c == deps_log[k].call IN
            /\ next_rets[c] = NextErr(deps_log[k].resp.kind)
            /\ \A j \in RequestsOfCall(c) : j <= k
    /\ resolution # None =>
        LET log == resolution[1].log
            ret == resolution[1].ret
        IN  \A k \in 1..Len(log) :
                log[k].resp.kind \in {"transport_err", "format_err"} =>
                    /\ k = Len(log)
                    /\ ret = RunErr(log[k].resp.kind)

\* Three candidates: the first has no position, the request for the second
\* fails; the call returns the error and the third is not requested.
C14_Witness ==
    /\ Len(matched) = 3
    /\ Len(deps_log) = 2
    /\ deps_log[1].resp = Deps(None, "vA")
    /\ deps_log[2].resp = DepsTransportErr
    /\ next_rets = <<NextErr("transport_err")>>
    /\ iter = <<3>>

\* The position run() looks up: the one the last deps response gave.
RunPosition ==
    LET log == resolution[1].log IN ParseUsize(log[Len(log)].resp.pos[1])[1]

\* run() got as far as find_builds.
RunLookedUp == resolution # None /\ resolution[1].ret.kind \in {"ok", "no_build"}

\* The revisions of the build list, read as find_builds reads them.
ListedRevisions ==
    {MainBuildRev(builds[i])[1] : i \in {k \in 1..Len(builds) : MainBuildRev(builds[k]) # None}}

\* C17: find_builds returns the entry with the smallest revision >= p when
\* that revision is at most p + 120, and nothing otherwise.
C17_FindBuildsNearestWithinTolerance ==
    RunLookedUp =>
        LET ret == resolution[1].ret
            atLeast == {r \in ListedRevisions : r >= RunPosition}
        IN  IF \E r \in atLeast : r - RunPosition <= 120
            THEN /\ ret.kind = "ok"
                 /\ ret.revision \in atLeast
                 /\ \A r \in atLeast : ret.revision <= r
                 /\ MainBuildRev(ret.prefix) = Some(ret.revision)
            ELSE ret.kind = "no_build"

\* C18: in run() a candidate whose position has no build does not end
\* the resolution: the next candidate is tried, and run() ends with the
\* no-build error only when no candidate is left.
C18_RunContinuesAfterNoBuild ==
    resolution # None =>
        LET log == resolution[1].log
            ret == resolution[1].ret
        IN  /\ \A k \in 1..Len(log) :
                ( /\ ~NoPosition(log[k].resp)
                  /\ log[k].resp.kind = "deps"
                  /\ find_builds(builds, ParseUsize(log[k].resp.pos[1])[1]) = None
                  /\ k < Len(matched) ) => k < Len(log)
            /\ ret.kind = "no_build" => Len(log) = Len(matched)

\* C19: the records run() tries are those whose version is the query, or
\* starts with the query followed by '.'.
C19_FindHistoryMatchRule ==
    match_state = "run_done" =>
        /\ \A k \in 1..Len(matched) : matched[k] \in 1..Len(history)
        /\ \A i \in 1..Len(history) :
              (i \in Range(matched)) <=>
                  \/ history[i] = hist_query
                  \/ StartsWith(history[i], hist_query \o <<".">>)

\* What find returned for the request k of the log that reached it: the
\* prefix of the item its call of next() returned, or nothing when the
\* loop went on.
FindResult(k) ==
    LET c == deps_log[k].call IN
    IF (\A j \in RequestsOfCall(c) : j <= k) /\ next_rets[c].kind = "ok"
    THEN Some(next_rets[c].rev_prefix)
    ELSE None

\* Two calls of find with the same position returned the same entry.
SameArgsSameEntry ==
    \A k1, k2 \in 1..Len(deps_log) :
        (/\ FindCalled(deps_log[k1].resp) /\ FindCalled(deps_log[k2].resp)
         /\ ParseUsize(deps_log[k1].resp.pos[1]) = ParseUsize(deps_log[k2].resp.pos[1])) =>
            FindResult(k1) = FindResult(k2)

\* C27: no step of the resolution (match_version with ChromiumHistory::find,
\* next() with ChromiumBuilds::find, run()'s own resolution) changes the
\* catalog or the history, content or order; two calls of find with the
\* same arguments return the same entry.
C27_CatalogAndHistoryReadOnly ==
    /\ [][builds' = builds /\ history' = history]_vars
    /\ []SameArgsSameEntry

\* Two calls of next() asked find for position 50 on a catalog that is not
\* in revision order; both got Win_x64/100/ and the catalog is as listed.
C27_Witness ==
    /\ builds = <<P250, P100>>
    /\ Len(deps_log) = 2
    /\ deps_log[1].resp = Deps(Some(<<"5", "0">>), "vA")
    /\ deps_log[2].resp = Deps(Some(<<"5", "0">>), "vB")
    /\ next_rets = <<NextOk(P100, "vA"), NextOk(P100, "vB")>>

\* C30: what ChromiumHistory::find returns to match_version is a
\* subsequence of the history: records of the history, every record that
\* matches the query (its version is the query, or starts with the query
\* followed by '.') exactly once, in the history's order; next() asks for
\* the candidates' deps in that order.
C30_FindReturnsSubsequence ==
    match_state = "ready" =>
        /\ \A k \in 1..Len(matched) : matched[k] \in 1..Len(history)
        /\ \A k, l \in 1..Len(matched) : k < l => matched[k] < matched[l]
        /\ \A i \in 1..Len(history) :
              MatchesQuery(history[i], hist_query) =>
                  Cardinality({k \in 1..Len(matched) : matched[k] = i}) = 1
        /\ Len(deps_log) <= Len(matched)
        /\ \A k \in 1..Len(deps_log) : deps_log[k].cand = matched[k]
        /\ iter = SubSeq(matched, Len(deps_log) + 1, Len(matched))

\* ------------------------------------------------------------------------
\* ChromiumVersion (version.rs), find_latest_version (main.rs)
\* ------------------------------------------------------------------------

\* usize::to_string: the decimal digits, without leading zeros.
RECURSIVE NatToDigits(_)
NatToDigits(n) ==
    IF n < 10 THEN <<Digits[n + 1]>>
    ELSE Append(NatToDigits(n \div 10), Digits[(n % 10) + 1])

\* filter_map(|v| v.parse::<usize>().ok()): the segments that parse.
RECURSIVE ParsedSegments(_)
ParsedSegments(segs) ==
    IF segs = <<>> THEN <<>>
    ELSE ParseUsize(Head(segs)) \o ParsedSegments(Tail(segs))

\* ChromiumVersion::from_str: Some(<<major, minor, branch, patch>>) or
\* None (the error).
ChromiumVersion_from_str(s) ==
    LET split == Split(s, ".") IN
    IF Len(split) # 4 THEN None
    ELSE LET nums == ParsedSegments(split) IN
         IF Len(nums) = 4 THEN Some(nums) ELSE None

\* ChromiumVersion::to_string
ChromiumVersion_to_string(v) ==
    NatToDigits(v[1]) \o <<".">> \o NatToDigits(v[2]) \o <<".">>
        \o NatToDigits(v[3]) \o <<".">> \o NatToDigits(v[4])

\* The derived Ord of ChromiumVersion: a > b, field by field.
VersionGreater_Reversed(a, b) == \E k \in 1..Len(a) :
    a[k] < b[k] /\ \A j \in 1..(k - 1) : a[j] = b[j]

RECURSIVE VersionGreater(_, _)
VersionGreater(a, b) ==
    IF a = <<>> THEN FALSE
    ELSE IF Head(a) # Head(b) THEN Head(a) > Head(b)
    ELSE VersionGreater(Tail(a), Tail(b))

\* find_latest_version: the greatest version of the list that parses.
RECURSIVE FindLatestFrom(_, _)
FindLatestFrom(list, latest) ==
    IF list = <<>> THEN latest
    ELSE LET ver == ChromiumVersion_from_str(Head(list)) IN
         IF ver = None THEN FindLatestFrom(Tail(list), latest)
         ELSE IF latest = None \/ VersionGreater(ver[1], latest[1])
              THEN FindLatestFrom(Tail(list), ver)
              ELSE FindLatestFrom(Tail(list), latest)

find_latest_version(list) == FindLatestFrom(list, None)

\* ------------------------------------------------------------------------
\* The filesystem
\* ------------------------------------------------------------------------

\* A path is the sequence of its components from the filesystem's root; a
\* filesystem is the set of its directories and the set of its files, each
\* file with its content.

\* The components of a path string: an empty segment names nothing.
RECURSIVE NamedSegments(_)
NamedSegments(segs) ==
    IF segs = <<>> THEN <<>>
    ELSE (IF Head(segs) = <<>> THEN <<>> ELSE <<Head(segs)>>) \o NamedSegments(Tail(segs))

\* Path::join(rel): the components of base followed by those of rel, "."
\* and ".." among them, as written; an absolute rel replaces the base.
Join(base, rel) ==
    (IF rel # <<>> /\ rel[1] = "/" THEN <<>> ELSE base) \o NamedSegments(Split(rel, "/"))

FileAt(f, path) == {x \in f.files : x.path = path}

\* The content of a file whose copy failed part-way.
PartialData == "partial"

Front(path) == SubSeq(path, 1, Len(path) - 1)

\* One component further from a directory: "." is the directory itself,
\* ".." its parent (the root's parent is the root).
Step(cur, c) ==
    IF c = <<".">> THEN cur
    ELSE IF c = <<".", ".">> THEN Front(cur)
    ELSE Append(cur, c)

\* The filesystem following a path from the root: every component is
\* looked up in the directory the components before it lead to, which has
\* to exist ("not_found") and to be a directory ("not_dir").
RECURSIVE WalkFrom(_, _, _)
WalkFrom(f, cur, comps) ==
    IF cur \notin f.dirs
    THEN [kind |-> IF FileAt(f, cur) # {} THEN "not_dir" ELSE "not_found", at |-> cur]
    ELSE IF comps = <<>> THEN [kind |-> "ok", at |-> cur]
    ELSE WalkFrom(f, Step(cur, Head(comps)), Tail(comps))

Walk(f, path) == WalkFrom(f, <<>>, path)

\* The place a path names when every directory on its way exists.
RECURSIVE LexicalFrom(_, _)
LexicalFrom(cur, comps) ==
    IF comps = <<>> THEN cur ELSE LexicalFrom(Step(cur, Head(comps)), Tail(comps))

Lexical(path) == LexicalFrom(<<>>, path)

\* Where a path's last component is looked up: the place it names, once the
\* components before it have led to a directory.
Locate(f, path) ==
    LET Last(up) == IF up.kind # "ok" THEN up
                    ELSE [kind |-> "ok", at |-> Step(up.at, path[Len(path)])]
    IN  IF path = <<>> THEN [kind |-> "ok", at |-> <<>>]
        ELSE Last(Walk(f, Front(path)))

\* Path::is_dir
IsDirectory(f, path) == Walk(f, path).kind = "ok"

\* Path::parent: the path without its last component; "." components at
\* the end are not counted as components.
RECURSIVE TrimDots(_)
TrimDots(path) ==
    IF path # <<>> /\ path[Len(path)] = <<".">> THEN TrimDots(Front(path)) ELSE path

Parent(path) ==
    LET p == TrimDots(path) IN
    IF p = <<>> THEN None ELSE Some(TrimDots(Front(p)))

\* A filesystem that refuses nothing has room for any number of new
\* directories and files.
Plenty == 1000

\* mkdir(path) on a filesystem with room for `room` more entries.
Mkdir(f, path, room) ==
    LET At(t) ==
            IF t.kind # "ok" THEN [kind |-> t.kind, fs |-> f, at |-> t.at]
            ELSE IF t.at \in f.dirs \/ FileAt(f, t.at) # {}
            THEN [kind |-> "exists", fs |-> f, at |-> t.at]
            ELSE IF room = 0 THEN [kind |-> "full", fs |-> f, at |-> t.at]
            ELSE [kind |-> "ok", fs |-> [f EXCEPT !.dirs = @ \cup {t.at}], at |-> t.at]
    IN  At(Locate(f, path))

\* std::fs::create_dir_all: mkdir(path); on NotFound the parent is created
\* first and mkdir(path) is tried again; any other error is a success when
\* the path is a directory. What was created before an error stays.
RECURSIVE CreateDirAllRoom(_, _, _)
CreateDirAllRoom(f, path, room) ==
    LET \* the result of a mkdir(path) tried on g with r entries of room left
        Made(g, r, made) ==
            IF made.kind = "ok"
            THEN [ok |-> TRUE, fs |-> made.fs, room |-> r - 1, at |-> made.at]
            ELSE [ok |-> IsDirectory(g, path), fs |-> g, room |-> r, at |-> made.at]
        Again(up) == IF ~up.ok THEN up ELSE Made(up.fs, up.room, Mkdir(up.fs, path, up.room))
        Missing(first, parent) ==
            IF parent = None THEN [ok |-> FALSE, fs |-> f, room |-> room, at |-> first.at]
            ELSE Again(CreateDirAllRoom(f, parent[1], room))
        First(first) ==
            IF first.kind # "not_found" THEN Made(f, room, first)
            ELSE Missing(first, Parent(path))
    IN  First(Mkdir(f, path, room))

CreateDirAll(f, path) == CreateDirAllRoom(f, path, Plenty)

\* OpenOptions::new().write(true).truncate(true).create(true).open(path)
\* followed by copy: fails when the components before the last do not lead
\* to a directory or the path names a directory; otherwise the file holds
\* exactly data.
WriteFile_KeepExisting(f, path, data) ==
    LET At(t) ==
            IF t.kind # "ok" \/ t.at \in f.dirs
            THEN [ok |-> FALSE, fs |-> f, at |-> t.at]
            ELSE [ok |-> TRUE, at |-> t.at,
                  fs |-> IF FileAt(f, t.at) # {} THEN f
                         ELSE [f EXCEPT !.files = @ \cup {[path |-> t.at, data |-> data]}]]
    IN  At(Locate(f, path))

WriteFile(f, path, data) ==
    LET At(t) ==
            IF t.kind # "ok" \/ t.at \in f.dirs
            THEN [ok |-> FALSE, fs |-> f, at |-> t.at]
            ELSE [ok |-> TRUE, at |-> t.at,
                  fs |-> [f EXCEPT !.files = (@ \ FileAt(f, t.at))
                                               \cup {[path |-> t.at, data |-> data]}]]
    IN  At(Locate(f, path))

\* Whether the open has to create the file.
Creates(f, path) ==
    LET At(t) == t.kind = "ok" /\ t.at \notin f.dirs /\ FileAt(f, t.at) = {}
    IN  At(Locate(f, path))

\* What the filesystem refuses beyond what its content decides: nothing
\* ("ok"); the create or open outright ("fail"); the copy, after the open
\* ("fail_copy"); or every new directory and file after `room` more of
\* them ("full").
IoOutcomes == {"ok", "fail", "fail_copy", "full"}

MaxRoom == 1

Rooms(io) == IF io = "full" THEN 0..MaxRoom ELSE {Plenty}

\* create_dir_all(path) under io.
MakeDirs(f, path, io, room) ==
    IF io \in {"fail", "fail_copy"} THEN [ok |-> FALSE, fs |-> f, room |-> room, at |-> Lexical(path)]
    ELSE CreateDirAllRoom(f, path, room)

\* open(path) and copy under io.
OpenAndCopy(f, path, data, io, room) ==
    IF io = "fail" \/ (room = 0 /\ Creates(f, path)) 
    THEN [ok |-> FALSE, fs |-> f, at |-> Lexical(path)]
    ELSE IF io = "fail_copy"
    THEN [WriteFile(f, path, PartialData) EXCEPT !.ok = FALSE]
    ELSE WriteFile(f, path, data)

\* std::fs::rename(from, to), rename(2): fails when a path ends in "." or
\* ".." or is the root, when a path's parent is missing, or when from is
\* missing. Two paths of one entry: nothing happens. A directory is not
\* moved onto a file, onto a directory that is not empty, or inside itself;
\* a file is not moved onto a directory. Otherwise everything under from is
\* under to, the file or empty directory at to being replaced.
Rebase(path, from, to) == to \o SubSeq(path, Len(from) + 1, Len(path))

IsUnder(path, dir) == Len(path) >= Len(dir) /\ SubSeq(path, 1, Len(dir)) = dir

IsEmptyDir(f, dir) ==
    /\ dir \in f.dirs
    /\ \A d \in f.dirs : IsUnder(d, dir) => d = dir
    /\ \A x \in f.files : ~IsUnder(x.path, dir)

\* Whether the last component of a path is a name.
NamesEntry(path) == path # <<>> /\ path[Len(path)] \notin {<<".">>, <<".", ".">>}

Rename(f, from, to) ==
    LET Moved(src, dst) ==
            [dirs |-> {IF IsUnder(d, src) THEN Rebase(d, src, dst) ELSE d : d \in f.dirs \ {dst}},
             files |-> {IF IsUnder(x.path, src)
                        THEN [path |-> Rebase(x.path, src, dst), data |-> x.data]
                        ELSE x : x \in f.files \ FileAt(f, dst)}]
        Move(src, dst) ==
            IF \/ ~NamesEntry(from) \/ ~NamesEntry(to)
               \/ src.kind # "ok" \/ dst.kind # "ok"
               \/ (src.at \notin f.dirs /\ FileAt(f, src.at) = {})
            THEN [ok |-> FALSE, fs |-> f]
            ELSE IF dst.at = src.at THEN [ok |-> TRUE, fs |-> f]
            ELSE IF src.at \in f.dirs
            THEN IF \/ FileAt(f, dst.at) # {}
                    \/ (dst.at \in f.dirs /\ ~IsEmptyDir(f, dst.at))
                    \/ IsUnder(dst.at, src.at)
                 THEN [ok |-> FALSE, fs |-> f]
                 ELSE [ok |-> TRUE, fs |-> Moved(src.at, dst.at)]
            ELSE IF dst.at \in f.dirs THEN [ok |-> FALSE, fs |-> f]
                 ELSE [ok |-> TRUE, fs |-> Moved(src.at, dst.at)]
    IN  Move(Locate(f, from), Locate(f, to))

\* ------------------------------------------------------------------------
\* run() (main.rs): download and extraction
\* ------------------------------------------------------------------------

\* ZipFile::is_dir: the name ends with a separator.
IsDir(name) == name # <<>> /\ name[Len(name)] \in {"/", "\\"}

ManifestSuffix == <<".", "m", "a", "n", "i", "f", "e", "s", "t">>

\* The manifest branch: the name after the last '/', without the suffix,
\* is pushed when it parses as a version.
PushManifestVersion(vl, zip_name) ==
    IF EndsWith(zip_name, ManifestSuffix)
    THEN LET segs == Split(zip_name, "/")
             last == segs[Len(segs)]
             manifest_name == SubSeq(last, 1, Len(last) - Len(ManifestSuffix))
         IN  IF ChromiumVersion_from_str(manifest_name) # None
             THEN Append(vl, manifest_name) ELSE vl
    ELSE vl

\* The directory branch: with no version found yet, the last directory
\* name (zip_name.rsplit('/').nth(1)) is pushed, normalised, when it parses.
PushDirVersion(vl, zip_name) ==
    LET segs == Split(zip_name, "/") IN
    IF vl = <<>> /\ Len(segs) >= 2
    THEN LET ver == ChromiumVersion_from_str(segs[Len(segs) - 1]) IN
         IF ver # None THEN Append(vl, ChromiumVersion_to_string(ver[1])) ELSE vl
    ELSE vl

RunRevision == <<"1", "0", "0">>
\* std::env::current_dir()?.join(format!("tmp-chromium-{}", revision))
BasePath == <<Cwd, <<"t", "m", "p", "-", "c", "h", "r", "o", "m", "i", "u", "m", "-">> \o RunRevision>>
\* std::env::current_dir()?.join(format!("chromium-{}", version))
DestPath(version) == <<Cwd, <<"c", "h", "r", "o", "m", "i", "u", "m", "-">> \o version>>

\* prefix.is_empty(): no root has been recorded yet.
RootUnset_Always(pfx) == TRUE

RootUnset(pfx) == pfx = <<>>

\* The first-entry branch (prefix.is_empty()): a directory names the root.
FirstEntryAccepted_Any(name) == TRUE

FirstEntryAccepted(name) == IsDir(name)

\* zip_name.starts_with(&prefix)
UnderRoot_Always(zip_name, pfx) == TRUE

UnderRoot(zip_name, pfx) == StartsWith(zip_name, pfx)

\* base_path.join(&zip_name[prefix.len()..])
EntryFilePath_Unstripped(zip_name, pfx) == Join(BasePath, zip_name)

EntryFilePath(zip_name, pfx) ==
    Join(BasePath, SubSeq(zip_name, Len(pfx) + 1, Len(zip_name)))

\* What the loop does after a create_dir_all, an open or a copy: the `?`
\* returns the error.
IoOutcome_Ignored(ok) == "extracting"

IoOutcome(ok) == IF ok THEN "extracting" ELSE "io_err"

\* The path the map_err closures put in the error.
IoError(ok, file_path) == IF ok THEN None ELSE Some(file_path)

StepResult(state, pfx, vl, f, wrote, err) ==
    [state |-> state, prefix |-> pfx, version_list |-> vl, fs |-> f, wrote |-> wrote,
     err |-> err]

\* The body of the loop for one entry read from the stream, under what the
\* filesystem refuses (io, room).
RunEntry(pfx, vl, f, e, io, room) ==
    IF RootUnset(pfx) THEN
        IF FirstEntryAccepted(e.name)
        THEN StepResult("extracting", e.name, vl, f, <<>>, None)
        ELSE StepResult("malformed", pfx, vl, f, <<>>, None)
    ELSE IF UnderRoot(e.name, pfx) THEN
        LET Done(vl_after, file_path, r) ==
                StepResult(IoOutcome(r.ok), pfx, vl_after, r.fs,
                           IF r.ok \/ r.fs # f THEN <<r.at>> ELSE <<>>,
                           IoError(r.ok, file_path))
            Extract(vl1, file_path) ==
                IF IsDir(e.name)
                THEN Done(PushDirVersion(vl1, e.name), file_path,
                          MakeDirs(f, file_path, io, room))
                ELSE Done(vl1, file_path, OpenAndCopy(f, file_path, e.data, io, room))
        IN  Extract(PushManifestVersion(vl, e.name), EntryFilePath(e.name, pfx))
    ELSE StepResult("malformed", pfx, vl, f, <<>>, None)

\* --- inputs of the extraction specification ---

Entry(name, data) == [name |-> name, data |-> data]

NameRoot == <<"r", "/">>
NameA == <<"r", "/", "a">>
NameSub == <<"r", "/", "1", ".", "2", ".", "3", ".", "5", "/">>
NameSubF == <<"r", "/", "1", ".", "2", ".", "3", ".", "5", "/", "f">>
NameManifest == <<"r", "/", "1", ".", "2", ".", "3", ".", "4">> \o ManifestSuffix
NameOtherB == <<"o", "/", "b">>
NameUp == <<"r", "/", ".", ".", "/", ".", ".", "/", "x">>

ERoot == Entry(NameRoot, "")
EA1 == Entry(NameA, "B1")
EA2 == Entry(NameA, "B2")
ESub == Entry(NameSub, "")
ESubF == Entry(NameSubF, "B1")
EManifest == Entry(NameManifest, "B1")
EOtherB == Entry(NameOtherB, "B2")
EUp == Entry(NameUp, "B2")

EntryUniverse == {ERoot, EA1, EA2, ESub, ESubF, EManifest, EOtherB, EUp}

MaxEntries == 4

PathA == Append(BasePath, <<"a">>)
PathSub == Append(BasePath, <<"1", ".", "2", ".", "3", ".", "5">>)
PathSubF == Append(PathSub, <<"f">>)
PathKeep == Append(BasePath, <<"k", "e", "e", "p">>)

\* Before run(): nothing but the working directory; or what an earlier
\* run left in the temporary directory.
InitialFilesystems ==
    {StartFs,
     [dirs |-> {<<>>, <<Cwd>>, BasePath},
      files |-> {[path |-> PathA, data |-> "old"], [path |-> PathKeep, data |-> "old"]}],
     [dirs |-> {<<>>, <<Cwd>>, BasePath}, files |-> {[path |-> PathSub, data |-> "old"]}]}

RunInit ==
    /\ stream \in SeqsUpTo(EntryUniverse, MaxEntries)
    /\ ex_state = "start"
    /\ ex_pos = 0
    /\ prefix = <<>>
    /\ version_list = <<>>
    /\ fs0 \in InitialFilesystems
    /\ fs = fs0
    /\ writes = <<>>
    /\ extractor = "run"
    /\ ex_err = None
    /\ FindIdle /\ HistIdle /\ PageIdle /\ InitIdle /\ MatchIdle /\ UtilIdle

notRunVars == <<findVars, histVars, pageVars, initVars, matchVars, utilVars>>

\* The archive is requested and the temporary directory is created.
RunStart(get, io) ==
    /\ ex_state = "start"
    /\ IF get # "ok" THEN ex_state' = "transport_err" /\ fs' = fs
       ELSE LET r == IF io = "ok" THEN CreateDirAll(fs, BasePath)
                     ELSE [ok |-> FALSE, fs |-> fs]
            IN  /\ ex_state' = IF r.ok THEN "extracting" ELSE "io_err"
                /\ fs' = r.fs
    /\ UNCHANGED <<stream, ex_pos, prefix, version_list, fs0, writes, extractor, ex_err, notRunVars>>

\* One iteration of the loop: read_zipfile_from_stream returns an entry.
RunReadEntry(io) ==
    /\ extractor = "run"
    /\ ex_state = "extracting"
    /\ ex_pos < Len(stream)
    /\ \E room \in Rooms(io) :
       \E r \in {RunEntry(prefix, version_list, fs, stream[ex_pos + 1], io, room)} :
        /\ ex_pos' = ex_pos + 1
        /\ ex_state' = r.state
        /\ prefix' = r.prefix
        /\ version_list' = r.version_list
        /\ fs' = r.fs
        /\ writes' = writes \o [i \in 1..Len(r.wrote) |-> [entry |-> ex_pos + 1, path |-> r.wrote[i]]]
        /\ ex_err' = r.err
    /\ UNCHANGED <<stream, fs0, extractor, notRunVars>>

\* read_zipfile_from_stream returns Err.
RunReadErr ==
    /\ extractor = "run"
    /\ ex_state = "extracting"
    /\ ex_state' = "read_err"
    /\ UNCHANGED <<stream, ex_pos, prefix, version_list, fs0, fs, writes, extractor, ex_err, notRunVars>>

\* read_zipfile_from_stream returns Ok(None): the loop ends.
RunLoopEnd ==
    /\ extractor = "run"
    /\ ex_state = "extracting"
    /\ ex_pos = Len(stream)
    /\ ex_state' = "extracted"
    /\ UNCHANGED <<stream, ex_pos, prefix, version_list, fs0, fs, writes, extractor, ex_err, notRunVars>>

\* The temporary directory is renamed after the latest version found, or
\* after the revision.
RunRename(io) ==
    /\ ex_state = "extracted"
    /\ LET latest == find_latest_version(version_list)
           version == IF latest # None THEN ChromiumVersion_to_string(latest[1])
                      ELSE RunRevision
           r == IF io = "ok" THEN Rename(fs, BasePath, DestPath(version))
                ELSE [ok |-> FALSE, fs |-> fs]
       IN  /\ ex_state' = IF r.ok THEN "ok" ELSE "rename_err"
           /\ fs' = r.fs
    /\ UNCHANGED <<stream, ex_pos, prefix, version_list, fs0, writes, extractor, ex_err, notRunVars>>

RunNext ==
    \/ \E get \in {"ok", "fail"}, io \in {"ok", "fail"} : RunStart(get, io)
    \/ \E io \in IoOutcomes : RunReadEntry(io)
    \/ RunReadErr
    \/ RunLoopEnd
    \/ \E io \in {"ok", "fail"} : RunRename(io)

SpecRun == RunInit /\ [][RunNext]_vars

\* --- properties of the extraction ---

\* The filesystem when the loop starts: the temporary directory exists.
FsAtLoopStart == CreateDirAll(fs0, BasePath).fs

\* Where entry j of the stream goes: its name without the root's name,
\* under the temporary directory.
EntryPath(j) ==
    Lexical(Join(BasePath,
                 SubSeq(stream[j].name, Len(stream[1].name) + 1, Len(stream[j].name))))

\* The last entry before k that goes where entry j goes.
LastWriter(j, k) ==
    CHOOSE m \in j..(k - 1) :
        /\ EntryPath(m) = EntryPath(j)
        /\ \A n \in (m + 1)..(k - 1) : EntryPath(n) # EntryPath(j)

\* C9: when the first entry read from the stream is a file, run() ends
\* with the malformed-layout error at that entry: no entry is written and
\* the filesystem is as it was when the loop started.
C9_FirstEntryFileIsMalformed ==
    (ex_pos >= 1 /\ ~IsDir(stream[1].name)) =>
        /\ ex_pos = 1
        /\ ex_state = "malformed"
        /\ writes = <<>>
        /\ fs = FsAtLoopStart

C9_Witness ==
    /\ stream = <<EA1, ERoot, ESubF>>
    /\ fs0 = [dirs |-> {<<>>, <<Cwd>>}, files |-> {}]
    /\ ex_pos = 1
    /\ ex_state = "malformed"
    /\ fs = [dirs |-> {<<>>, <<Cwd>>, BasePath}, files |-> {}]

\* C10: once the root is recorded, an entry k whose name does not start
\* with it ends run() with the malformed-layout error at entry k: nothing
\* at or after k is written, every entry before k was written and is still
\* in the filesystem, a file with the bytes last written to its path.
C10_OutsideRootFailsThere ==
    \A k \in 2..Len(stream) :
        (/\ IsDir(stream[1].name)
         /\ ~StartsWith(stream[k].name, stream[1].name)
         /\ ex_pos >= k) =>
            /\ ex_pos = k
            /\ ex_state = "malformed"
            /\ \A i \in 1..Len(writes) : writes[i].entry < k
            /\ \A j \in 2..(k - 1) :
                /\ \E i \in 1..Len(writes) :
                       writes[i].entry = j /\ writes[i].path = EntryPath(j)
                /\ IF IsDir(stream[j].name)
                   THEN EntryPath(j) \in fs.dirs
                   ELSE FileAt(fs, EntryPath(j)) =
                            {[path |-> EntryPath(j), data |-> stream[LastWriter(j, k)].data]}

C10_Witness ==
    /\ stream = <<ERoot, ESub, EA1, EOtherB>>
    /\ ex_pos = 4
    /\ ex_state = "malformed"
    /\ PathSub \in fs.dirs
    /\ FileAt(fs, PathA) = {[path |-> PathA, data |-> "B1"]}
    /\ \A x \in fs.files : x.data # "B2"

\* The directory the extracted tree is in: the temporary directory when the
\* loop has ended, the renamed one when run() has returned Ok.
ExtractedDir ==
    IF ex_state = "ok"
    THEN LET latest == find_latest_version(version_list) IN
         DestPath(IF latest # None THEN ChromiumVersion_to_string(latest[1]) ELSE RunRevision)
    ELSE BasePath

\* Where entry j is expected after the extraction: the components of its
\* name after the root's, under the extracted directory.
ExpectedPath(j) ==
    Lexical(ExtractedDir \o NamedSegments(Split(SubSeq(stream[j].name, Len(stream[1].name) + 1,
                                                       Len(stream[j].name)), "/")))

\* The name of the root directory, without the separator that ends it.
RootName == SubSeq(stream[1].name, 1, Len(stream[1].name) - 1)

\* What was under the temporary directory before run(), as it would be
\* under the extracted directory.
PreExisting ==
    {Rebase(q, BasePath, ExtractedDir) :
        q \in {d \in fs0.dirs : IsUnder(d, BasePath)}
                \cup {x.path : x \in {y \in fs0.files : IsUnder(y.path, BasePath)}}}

\* C11: when the loop has ended without error (and when run() has then
\* renamed the directory), every file entry Root+rel is a file at D/rel
\* with the bytes of the last entry of that name, every directory entry
\* Root+rel is a directory D/rel, and D holds nothing else that was not
\* there before: in particular no D/Root unless an entry is Root+Root+...
C11_ExtractionRoundTrip ==
    (ex_state \in {"extracted", "ok"} /\ stream # <<>>) =>
        LET n == Len(stream)
            D == ExtractedDir
            under == {d \in fs.dirs : IsUnder(d, D)} \cup
                     {x.path : x \in {y \in fs.files : IsUnder(y.path, D)}}
        IN  /\ IsDir(stream[1].name)
            /\ \A j \in 2..n :
                /\ StartsWith(stream[j].name, stream[1].name)
                /\ IF IsDir(stream[j].name)
                   THEN ExpectedPath(j) \in fs.dirs
                   ELSE \E m \in j..n :
                          /\ stream[m].name = stream[j].name
                          /\ \A l \in (m + 1)..n : stream[l].name # stream[j].name
                          /\ FileAt(fs, ExpectedPath(j)) =
                                 {[path |-> ExpectedPath(j), data |-> stream[m].data]}
            /\ \A q \in under :
                \/ q \in PreExisting
                \/ \E j \in 2..n : IsUnder(ExpectedPath(j), q)
                \/ q = D
            /\ (\A j \in 2..n : ~IsUnder(ExpectedPath(j), Append(D, RootName))) =>
                   (Append(D, RootName) \notin under \/ Append(D, RootName) \in PreExisting)

\* The spec's example: the root, a directory under it and a file in that
\* directory; run() has renamed the directory after the version the
\* directory is named with.
C11_Witness ==
    /\ stream = <<ERoot, ESub, ESubF>>
    /\ fs0 = [dirs |-> {<<>>, <<Cwd>>}, files |-> {}]
    /\ ex_state = "ok"
    /\ LET D == DestPath(<<"1", ".", "2", ".", "3", ".", "5">>) IN
        /\ fs.dirs = {<<>>, <<Cwd>>, D, Append(D, <<"1", ".", "2", ".", "3", ".", "5">>)}
        /\ fs.files = {[path |-> Append(Append(D, <<"1", ".", "2", ".", "3", ".", "5">>), <<"f">>),
                        data |-> "B1"]}

\* C15: the root is recorded from the first entry of the stream and never
\* changes afterwards: a step leaves a recorded root as it is, and a root
\* that a step records is the name of the first entry.
C15_RootIsFixed ==
    [][/\ prefix # <<>> => prefix' = prefix
       /\ (prefix = <<>> /\ prefix' # <<>>) => (ex_pos' = 1 /\ prefix' = stream[1].name)]_vars

\* The root is still the first entry's name after two more entries, one of
\* them a directory.
C15_Witness ==
    /\ stream = <<ERoot, ESub, EA1>>
    /\ ex_pos = 3
    /\ ex_state = "extracting"
    /\ prefix = NameRoot

\* ------------------------------------------------------------------------
\* download_chromium_zip_file (chromium/download.rs)
\* ------------------------------------------------------------------------

\* The four root directories the function knows.
KnownRoots ==
    {<<"c", "h", "r", "o", "m", "e", "-", "w", "i", "n", "/">>,
     <<"c", "h", "r", "o", "m", "e", "-", "w", "i", "n", "3", "2", "/">>,
     <<"c", "h", "r", "o", "m", "e", "-", "m", "a", "c", "/">>,
     <<"c", "h", "r", "o", "m", "e", "-", "l", "i", "n", "u", "x", "/">>}

\* zip_name.starts_with("chrome-win/") || ... || starts_with("chrome-linux/")
UnderKnownRoot(zip_name) == \E r \in KnownRoots : StartsWith(zip_name, r)

\* zip_name.find('/').unwrap() + 1
PrefixLen(zip_name) ==
    (CHOOSE i \in 1..Len(zip_name) :
        zip_name[i] = "/" /\ \A j \in 1..(i - 1) : zip_name[j] # "/")

\* ChromiumReleaseItem::download: current_dir().join(format!("chromium-{}", self.version)),
\* created before the call.
DownloadVersion == <<"1", ".", "2", ".", "3", ".", "5">>
DownloadBasePath == DestPath(DownloadVersion)

\* The body of the loop for one entry. There is no first-entry branch and
\* no recorded root: an entry is accepted when it is under a known root.
DownloadEntry(f, e, io, room) ==
    IF UnderKnownRoot(e.name) THEN
        LET Done(file_path, r) ==
                StepResult(IoOutcome(r.ok), <<>>, <<>>, r.fs,
                           IF r.ok \/ r.fs # f THEN <<r.at>> ELSE <<>>,
                           IoError(r.ok, file_path))
            \* let _ = create_dir_all(parent_dir): its result is dropped.
            InParent(file_path, made) ==
                Done(file_path, OpenAndCopy(made.fs, file_path, e.data, io, made.room))
            MakeParent(parent_dir) ==
                IF parent_dir = None THEN [ok |-> TRUE, fs |-> f, room |-> room]
                ELSE CreateDirAllRoom(f, parent_dir[1], room)
            Extract(file_path) ==
                IF IsDir(e.name) THEN Done(file_path, MakeDirs(f, file_path, io, room))
                ELSE InParent(file_path, MakeParent(Parent(file_path)))
            Strip(prefix_len) ==
                Extract(Join(DownloadBasePath, SubSeq(e.name, prefix_len + 1, Len(e.name))))
        IN  Strip(PrefixLen(e.name))
    ELSE StepResult("malformed", <<>>, <<>>, f, <<>>, None)

\* --- inputs of the download specification ---

DWin == Entry(<<"c", "h", "r", "o", "m", "e", "-", "w", "i", "n", "/">>, "")
DWinA == Entry(<<"c", "h", "r", "o", "m", "e", "-", "w", "i", "n", "/", "a">>, "B1")
DWinSub == Entry(<<"c", "h", "r", "o", "m", "e", "-", "w", "i", "n", "/", "s", "/">>, "")
DWinSubF == Entry(<<"c", "h", "r", "o", "m", "e", "-", "w", "i", "n", "/", "s", "/", "f">>, "B2")
DMacA == Entry(<<"c", "h", "r", "o", "m", "e", "-", "m", "a", "c", "/", "a">>, "B2")
DWinUp == Entry(<<"c", "h", "r", "o", "m", "e", "-", "w", "i", "n", "/",
                  ".", ".", "/", ".", ".", "/", "x">>, "B2")

DownloadEntryUniverse == {DWin, DWinA, DWinSub, DWinSubF, DMacA, DWinUp, EA1}

\* Before the call: the directory ChromiumReleaseItem::download created,
\* empty, or with what an earlier download left in it.
DownloadFilesystems ==
    LET made == CreateDirAll(StartFs, DownloadBasePath).fs IN
    {made,
     [made EXCEPT !.files = {[path |-> Append(DownloadBasePath, <<"a">>), data |-> "old"],
                             [path |-> Append(DownloadBasePath, <<"k", "e", "e", "p">>),
                              data |-> "old"]}]}

DownloadInit ==
    /\ stream \in SeqsUpTo(DownloadEntryUniverse, MaxEntries)
    /\ ex_state = "download"
    /\ ex_pos = 0
    /\ prefix = <<>>
    /\ version_list = <<>>
    /\ fs0 \in DownloadFilesystems
    /\ fs = fs0
    /\ writes = <<>>
    /\ extractor = "download"
    /\ ex_err = None
    /\ FindIdle /\ HistIdle /\ PageIdle /\ InitIdle /\ MatchIdle /\ UtilIdle

\* reqwest::blocking::get(&zip_file.media_link)?
DownloadGet(get) ==
    /\ ex_state = "download"
    /\ ex_state' = IF get = "ok" THEN "extracting" ELSE "transport_err"
    /\ UNCHANGED <<stream, ex_pos, prefix, version_list, fs0, fs, writes, extractor, ex_err, notRunVars>>

\* One iteration of the loop: read_zipfile_from_stream returns an entry.
DownloadReadEntry(io) ==
    /\ extractor = "download"
    /\ ex_state = "extracting"
    /\ ex_pos < Len(stream)
    /\ \E room \in Rooms(io) :
       \E r \in {DownloadEntry(fs, stream[ex_pos + 1], io, room)} :
        /\ ex_pos' = ex_pos + 1
        /\ ex_state' = r.state
        /\ fs' = r.fs
        /\ writes' = writes \o [i \in 1..Len(r.wrote) |-> [entry |-> ex_pos + 1, path |-> r.wrote[i]]]
        /\ ex_err' = r.err
    /\ UNCHANGED <<stream, prefix, version_list, fs0, extractor, notRunVars>>

\* read_zipfile_from_stream returns Err.
DownloadReadErr ==
    /\ extractor = "download"
    /\ ex_state = "extracting"
    /\ ex_state' = "read_err"
    /\ UNCHANGED <<stream, ex_pos, prefix, version_list, fs0, fs, writes, extractor, ex_err, notRunVars>>

\* read_zipfile_from_stream returns Ok(None): the loop ends and the
\* function returns Ok(()).
DownloadLoopEnd ==
    /\ extractor = "download"
    /\ ex_state = "extracting"
    /\ ex_pos = Len(stream)
    /\ ex_state' = "ok"
    /\ UNCHANGED <<stream, ex_pos, prefix, version_list, fs0, fs, writes, extractor, ex_err, notRunVars>>

DownloadNext ==
    \/ \E get \in {"ok", "fail"} : DownloadGet(get)
    \/ \E io \in IoOutcomes : DownloadReadEntry(io)
    \/ DownloadReadErr
    \/ DownloadLoopEnd

SpecDownload == DownloadInit /\ [][DownloadNext]_vars

\* Either extraction: run() of main.rs or download_chromium_zip_file.
ExtractInit == RunInit \/ DownloadInit

ExtractNext == RunNext \/ DownloadNext

SpecExtract == ExtractInit /\ [][ExtractNext]_vars

\* Either extraction when every request succeeds and the filesystem fails
\* only where its content makes it fail.
QuietNext ==
    \/ RunStart("ok", "ok")
    \/ RunReadEntry("ok")
    \/ RunLoopEnd
    \/ RunRename("ok")
    \/ DownloadGet("ok")
    \/ DownloadReadEntry("ok")
    \/ DownloadLoopEnd

SpecQuiet == ExtractInit /\ [][QuietNext]_vars

\* The streams the extraction state machine accepts: the first entry is a
\* directory and every later entry's name starts with its name.
RootedStream(st) ==
    /\ st # <<>>
    /\ IsDir(st[1].name)
    /\ \A j \in 2..Len(st) : StartsWith(st[j].name, st[1].name)

\* C12: download_chromium_zip_file returns Ok only for a stream whose first
\* entry is a directory with every later entry under it, and it ends with
\* the malformed-layout error as soon as it has read an entry that breaks
\* that rule.
C12_DownloadFollowsStateMachine ==
    /\ (ex_state = "ok" /\ stream # <<>>) => RootedStream(stream)
    /\ (ex_pos >= 1 /\ ~RootedStream(SubSeq(stream, 1, ex_pos))) => ex_state = "malformed"
    /\ ex_state = "malformed" => ~RootedStream(SubSeq(stream, 1, ex_pos))

\* --- properties of both extractions ---

\* The first entry that is written: run() records the root from entry 1.
FirstWritten == IF extractor = "run" THEN 2 ELSE 1

\* file_path of entry j's iteration, as the error message prints it.
FilePath(j) ==
    IF extractor = "run"
    THEN Join(BasePath, SubSeq(stream[j].name, Len(stream[1].name) + 1, Len(stream[j].name)))
    ELSE Join(DownloadBasePath,
              SubSeq(stream[j].name, PrefixLen(stream[j].name) + 1, Len(stream[j].name)))

\* Where entry j goes: the place file_path names.
ImplPath(j) == Lexical(FilePath(j))

\* The last file entry before k that goes where entry j goes.
LastFileWriter(j, k) ==
    CHOOSE m \in j..(k - 1) :
        /\ ImplPath(m) = ImplPath(j) /\ ~IsDir(stream[m].name)
        /\ \A n \in (m + 1)..(k - 1) :
               ~(ImplPath(n) = ImplPath(j) /\ ~IsDir(stream[n].name))

\* Entry j, read before entry k, is still in the filesystem: a directory
\* exists, a file holds the bytes last written to its path.
LeftInPlace(j, k) ==
    /\ \E i \in 1..Len(writes) : writes[i].entry = j /\ writes[i].path = ImplPath(j)
    /\ IF IsDir(stream[j].name)
       THEN ImplPath(j) \in fs.dirs
       ELSE FileAt(fs, ImplPath(j)) =
                {[path |-> ImplPath(j), data |-> stream[LastFileWriter(j, k)].data]}

\* When the create_dir_all, open or copy of entry k has failed, the
\* extraction has ended with the I/O error naming entry k's path, entry k is
\* the last one read, and the entries before k are in place; a file that
\* entry k itself was to overwrite is there, with its old bytes or with
\* what the failed copy wrote.
IoFailureStopsThere ==
    ex_err # None =>
        LET k == ex_pos IN
        /\ ex_state = "io_err"
        /\ k >= FirstWritten
        /\ ex_err = Some(FilePath(k))
        /\ \A i \in 1..Len(writes) : writes[i].entry <= k
        /\ \A j \in FirstWritten..(k - 1) :
            IF ~IsDir(stream[j].name) /\ ImplPath(j) = ImplPath(k)
            THEN \E x \in FileAt(fs, ImplPath(j)) :
                    x.data \in {stream[LastFileWriter(j, k)].data, PartialData}
            ELSE LeftInPlace(j, k)

\* C21: an I/O failure while creating the directory or writing the file of
\* entry k ends the extraction (run() and download_chromium_zip_file) at
\* once with an error naming that path: no later entry is read or written,
\* nothing is cleaned up, and no step follows the error.
C21_IoFailureAborts ==
    /\ []IoFailureStopsThere
    /\ [][ex_state = "io_err" => UNCHANGED runVars]_vars

\* run(): the root, a file, and a file whose directory does not exist: the
\* open of the third entry fails, the second entry's file is in place.
C21_Witness ==
    /\ extractor = "run"
    /\ stream = <<ERoot, EA1, ESubF, ESub>>
    /\ fs0 = [dirs |-> {<<>>, <<Cwd>>}, files |-> {}]
    /\ ex_state = "io_err"
    /\ ex_pos = 3
    /\ ex_err = Some(PathSubF)
    /\ fs.files = {[path |-> PathA, data |-> "B1"]}
    /\ PathSub \notin fs.dirs

\* Entry k is one the extraction takes: under the root that run() recorded
\* from a first directory entry, or under a root that
\* download_chromium_zip_file knows.
Taken(k) ==
    IF extractor = "run"
    THEN k >= 2 /\ IsDir(stream[1].name) /\ StartsWith(stream[k].name, stream[1].name)
    ELSE UnderKnownRoot(stream[k].name)

\* Something is in the way of file entry k: a file where one of its
\* directories has to be, or a directory where the file has to be.
Obstructed(k) ==
    LET path == ImplPath(k)
        before == {j \in FirstWritten..(k - 1) : Taken(j)}
    IN  \/ \E n \in 0..(Len(path) - 1) :
              \/ FileAt(fs0, SubSeq(path, 1, n)) # {}
              \/ \E j \in before : ~IsDir(stream[j].name) /\ ImplPath(j) = SubSeq(path, 1, n)
        \/ \E q \in fs0.dirs : IsUnder(q, path)
        \/ \E j \in before : IsDir(stream[j].name) /\ IsUnder(ImplPath(j), path)

\* C22: with no failure of the filesystem itself, a file entry that the
\* extraction takes and that nothing obstructs is written, with its parent
\* directories created when no earlier directory entry had created them
\* (run() and download_chromium_zip_file).
C22_FileEntryGetsParents ==
    \A k \in 1..ex_pos :
        (/\ ex_state \in {"extracting", "io_err", "extracted", "ok"}
         /\ \A j \in 1..(k - 1) : j >= FirstWritten => Taken(j) /\ ~Obstructed(j)
         /\ Taken(k) /\ ~IsDir(stream[k].name) /\ ~Obstructed(k)) =>
            /\ \E i \in 1..Len(writes) : writes[i].entry = k /\ writes[i].path = ImplPath(k)
            /\ k = ex_pos => ex_err = None

\* Where a path of the extraction is in the end: run() renames the
\* temporary directory.
FinalPath(p) ==
    IF extractor = "run" /\ ex_state = "ok" /\ IsUnder(p, BasePath)
    THEN Rebase(p, BasePath, ExtractedDir)
    ELSE p

\* The file entries read so far.
FilesRead == {j \in FirstWritten..ex_pos : ~IsDir(stream[j].name)}

\* C25: while no entry has failed and once the extraction has succeeded
\* (run() and download_chromium_zip_file), the file at the path of a file
\* entry holds exactly the bytes of the last entry read for that path,
\* whatever was there before; a file that was there before and that no
\* entry read names is as it was.
C25_OverwriteSemantics ==
    ex_state \in {"extracting", "extracted", "ok"} =>
        /\ \A j \in FilesRead :
            FileAt(fs, FinalPath(ImplPath(j))) =
                {[path |-> FinalPath(ImplPath(j)),
                  data |-> stream[LastFileWriter(j, ex_pos + 1)].data]}
        /\ \A x \in fs0.files :
            (\A j \in FilesRead : ImplPath(j) # x.path) =>
                [path |-> FinalPath(x.path), data |-> x.data] \in fs.files

\* download_chromium_zip_file into a directory that holds a and keep: the
\* archive names a twice; a holds the second entry's bytes, keep is as it
\* was.
C25_Witness ==
    /\ extractor = "download"
    /\ stream = <<DWinA, DMacA>>
    /\ ex_state = "ok"
    /\ fs0.files = {[path |-> Append(DownloadBasePath, <<"a">>), data |-> "old"],
                    [path |-> Append(DownloadBasePath, <<"k", "e", "e", "p">>), data |-> "old"]}
    /\ fs.files = {[path |-> Append(DownloadBasePath, <<"a">>), data |-> "B2"],
                   [path |-> Append(DownloadBasePath, <<"k", "e", "e", "p">>), data |-> "old"]}

\* The directory the extraction writes into: base_path.
Destination == IF extractor = "run" THEN BasePath ELSE DownloadBasePath

\* C28: every directory created and every file written for an entry is
\* inside the destination directory (run() and download_chromium_zip_file),
\* whatever segments the entry's path has under the root.
C28_WritesStayInDestination ==
    /\ \A i \in 1..Len(writes) : IsUnder(writes[i].path, Destination)
    /\ ex_state \in {"extracting", "io_err", "malformed", "read_err", "extracted"} =>
        /\ \A q \in fs.dirs \ FsAtLoopStart.dirs : IsUnder(q, Destination)
        /\ \A x \in fs.files \ fs0.files : IsUnder(x.path, Destination)

\* ------------------------------------------------------------------------
\* One session: ChromiumReleases::init, match_version, next, download
\* (chromium/mod.rs)
\* ------------------------------------------------------------------------

SessionResponses ==
    LET all == {Page(<<P250, P100>>, Some("t1")), Page(<<P100>>, Some("t2")),
                Page(<<P250, P100>>, None), TransportErr}
    IN  IF Len(calls) + 1 < MaxPages THEN all ELSE {r \in all : r.token = None}

SessionDepsResponses ==
    {Deps(None, "vA"), Deps(Some(<<"2", "0", "0">>), "vB"), DepsTransportErr}

SessionStreams == {<<>>, <<DWin, DWinA>>}

SessionRunStreams == {<<>>, <<ERoot, EA1>>}

\* Before the session: the working directory with nothing in it, or with a
\* file where ChromiumReleaseItem::download puts its directory.
SessionFilesystems ==
    {StartFs, [StartFs EXCEPT !.files = {[path |-> DownloadBasePath, data |-> "old"]}]}

\* ChromiumReleases::init is called with the history loaded and no builds
\* cache.
SessionInit ==
    /\ FindIdle
    /\ \E n \in 0..MaxCandidates : history = [i \in 1..n |-> CandidateVersion(i)]
    /\ hist_query = <<>> /\ matched = <<>> /\ hist_done = FALSE
    /\ PageIdle
    /\ cache = CacheAbsent
    /\ init_state = "start"
    /\ unwrapped_page_list = <<>>
    /\ MatchIdle
    /\ stream = <<>>
    /\ ex_state = "idle"
    /\ ex_pos = 0
    /\ prefix = <<>>
    /\ version_list = <<>>
    /\ fs0 \in SessionFilesystems
    /\ fs = fs0
    /\ writes = <<>>
    /\ extractor = "idle"
    /\ ex_err = None
    /\ UtilIdle

\* ChromiumBuilds::init has returned the catalog: ChromiumReleases::init
\* returns Ok(Self { platform, history, builds }).
SessionReleases ==
    /\ init_state = "ok"
    /\ match_state = "idle"
    /\ match_state' = "new"
    /\ match_prefix' = WinX64
    /\ resolution' = None
    /\ UNCHANGED <<findVars, histVars, pageVars, initVars, runVars, utilVars, iter, deps_log, next_rets>>

\* A ChromiumReleaseItem exists: a call of next() has returned one.
ItemReturned_Always == TRUE

ItemReturned == \E i \in 1..Len(next_rets) : next_rets[i].kind = "ok"

\* run() is past line 69: find_builds has given (prefix, revision).
RunResolved ==
    /\ resolution # None
    /\ resolution[1].ret.kind = "ok"

\* run(), lines 73-86: the build's files are listed and the archive is
\* chosen; st is the stream its request will give.
SessionRun(detail, st) ==
    /\ ex_state = "idle"
    /\ RunResolved
    /\ IF detail = "ok"
       THEN /\ ex_state' = "start"
            /\ stream' = st
       ELSE /\ ex_state' = "transport_err"
            /\ UNCHANGED stream
    /\ extractor' = "run"
    /\ UNCHANGED <<ex_pos, prefix, version_list, fs0, fs, writes, ex_err, notRunVars>>

\* ChromiumReleaseItem::download on the item next() returned: the build's
\* files are listed, the directory is created and download_chromium_zip_file
\* is called.
SessionDownload(detail, st) ==
    /\ ex_state = "idle"
    /\ ItemReturned
    /\ IF detail = "ok"
       THEN \E r \in {CreateDirAll(fs, DownloadBasePath)} :
            /\ ex_state' = IF r.ok THEN "download" ELSE "io_err"
            /\ stream' = IF r.ok THEN st ELSE stream
            /\ fs' = r.fs
       ELSE /\ ex_state' = "transport_err"
            /\ UNCHANGED <<stream, fs>>
    /\ extractor' = "download"
    /\ UNCHANGED <<ex_pos, prefix, version_list, fs0, writes, ex_err, notRunVars>>

SessionNext ==
    \/ InitStartPaging
    \/ \E resp \in SessionResponses : InitPageFetch(resp, "ok")
    \/ InitPageDone("ok")
    \/ SessionReleases
    \/ MatchVersion(V11)
    \/ MatchesNextFrom(SessionDepsResponses)
    \/ \E detail \in {"ok", "fail"}, st \in SessionStreams : SessionDownload(detail, st)
    \/ \E get \in {"ok", "fail"} : DownloadGet(get)
    \/ DownloadReadEntry("ok")
    \/ DownloadReadErr
    \/ DownloadLoopEnd
    \/ \E resps \in [1..Len(history) -> SessionDepsResponses], list_resp \in {"ok", "transport_err"} :
           RunResolve(V11, resps, list_resp)
    \/ \E detail \in {"ok", "fail"}, st \in SessionRunStreams : SessionRun(detail, st)
    \/ \E get \in {"ok", "fail"} : RunStart(get, "ok")
    \/ RunReadEntry("ok")
    \/ RunReadErr
    \/ RunLoopEnd
    \/ RunRename("ok")

SpecSession == SessionInit /\ [][SessionNext]_vars

\* The calls of ChromiumBuildsPage::next that made a request.
PageRequests == {k \in 1..Len(calls) : calls[k].requested}

\* The listing never returned a continuation token it had returned before.
ReturnedTokensDistinct ==
    \A i, j \in PageRequests :
        (i < j /\ calls[i].resp.kind = "page" /\ calls[i].resp.token # None
               /\ calls[j].resp.kind = "page") =>
            calls[i].resp.token # calls[j].resp.token

\* A failed page request is the last one and is how init ends, so that
\* nothing is resolved.
FailedPageRequestIsLast ==
    \A k \in PageRequests :
        calls[k].resp.kind # "page" =>
            /\ k = Len(calls)
            /\ init_state = calls[k].resp.kind
            /\ match_state = "idle"

\* No two page requests carry the same continuation token.
NoPageRequestedTwice ==
    \A i, j \in PageRequests : i < j => calls[i].sent # calls[j].sent

\* The first page request carries no token, every later one the token of
\* the page before it.
RequestsFollowTheListing ==
    \A k \in PageRequests :
        /\ k > 1 => (k - 1) \in PageRequests /\ calls[k - 1].resp.kind = "page"
        /\ calls[k].sent = IF k = 1 THEN None ELSE calls[k - 1].resp.token

\* The page requests follow the listing, a failed one is the last, and no
\* page is requested twice unless the listing returned a token twice.
PagesRequestedOnce ==
    /\ FailedPageRequestIsLast
    /\ RequestsFollowTheListing
    /\ ReturnedTokensDistinct => NoPageRequestedTwice

\* No candidate's deps are requested twice, and a failed deps request is
\* the last of its call of next(), which returns the error.
DepsRequestedOnce ==
    /\ \A i, j \in 1..Len(deps_log) : i < j => deps_log[i].cand # deps_log[j].cand
    /\ \A k \in 1..Len(deps_log) :
        deps_log[k].resp.kind # "deps" =>
            /\ \A j \in RequestsOfCall(deps_log[k].call) : j <= k
            /\ next_rets[deps_log[k].call] = NextErr(deps_log[k].resp.kind)

\* The archive is requested by the step that leaves "download"; no step
\* leads back there, and a failed request stays the outcome.
ArchiveRequestedOnce ==
    /\ ex_state \notin {"idle", "download"} => ex_state' \notin {"idle", "download"}
    /\ ex_state = "transport_err" => ex_state' = "transport_err"

\* C16, as amended: within one session no candidate's deps and not the
\* archive is requested twice; every page request carries the token the
\* page before it returned, so that no listing page (identified by its
\* token) is requested twice unless the listing returns a token twice; a
\* failed request is followed by no further request of its operation,
\* which ends with the failure.
C16_NoRetry ==
    /\ [](PagesRequestedOnce /\ DepsRequestedOnce)
    /\ [][ArchiveRequestedOnce]_vars

\* C16, as stated: within one session every listing page (identified by
\* its continuation token) and every candidate's deps are requested at
\* most once, and a failed request is the last of its operation.
C16_EveryPageRequestedOnce ==
    /\ FailedPageRequestIsLast
    /\ NoPageRequestedTwice
    /\ DepsRequestedOnce

\* Two pages were listed, two candidates' deps requested, and the request
\* for the archive failed.
C16_Witness ==
    /\ Len(calls) >= 2
    /\ calls[1].resp = Page(<<P250, P100>>, Some("t1"))
    /\ calls[2].sent = Some("t1")
    /\ calls[2].resp = Page(<<P250, P100>>, None)
    /\ Len(deps_log) = 2
    /\ deps_log[1].resp = Deps(None, "vA")
    /\ next_rets = <<NextOk(P250, "vB")>>
    /\ stream = <<DWin, DWinA>>
    /\ ex_state = "transport_err"

\* The resolution has given a build: next() has returned Ok(Some(item)),
\* or find_builds in run() has returned Some((prefix, revision)).
BuildResolved ==
    IF extractor = "run"
    THEN resolution # None /\ resolution[1].ret.kind = "ok"
    ELSE \E i \in 1..Len(next_rets) : next_rets[i].kind = "ok"

\* The archive has been requested or the filesystem touched.
ExtractionBegun == ex_state \notin {"idle", "start", "download"} \/ fs # fs0 \/ writes # <<>>

\* C23: the archive is requested and the filesystem is written only when
\* the resolution has given a build: next() has returned an item before
\* ChromiumReleaseItem::download, find_builds has returned a prefix before
\* run() goes on. When the resolution has ended without a build, nothing
\* is requested and the filesystem is as it was.
C23_ResolutionPrecedesExtraction ==
    /\ (ExtractionBegun \/ extractor # "idle") => BuildResolved
    /\ (resolution # None /\ resolution[1].ret.kind # "ok") =>
           (ex_state = "idle" /\ fs = fs0 /\ stream = <<>>)
    /\ (resolution = None /\ \A i \in 1..Len(next_rets) : next_rets[i].kind # "ok") =>
           (ex_state = "idle" /\ fs = fs0 /\ stream = <<>>)

\* A first candidate without a position, an item from the second, and its
\* archive extracted.
C23_Witness ==
    /\ Len(deps_log) = 2
    /\ next_rets = <<NextOk(P250, "vB")>>
    /\ extractor = "download"
    /\ ex_state = "ok"
    /\ stream = <<DWin, DWinA>>
    /\ fs0 = StartFs
    /\ fs.files = {[path |-> Append(DownloadBasePath, <<"a">>), data |-> "B1"]}

\* The requests before call k that were answered with a page that parsed.
ParsedBefore(k) == {j \in PageRequests : j < k /\ calls[j].resp.kind = "page"}

\* The token of the last page parsed before call k, None when there is none.
LastTokenBefore(k) ==
    IF ParsedBefore(k) = {} THEN None
    ELSE calls[CHOOSE m \in ParsedBefore(k) : \A j \in ParsedBefore(k) : j <= m].resp.token

\* C20: the first request carries no token; a later request carries the
\* token of the last page that parsed before it, and there is no request
\* once that page had no token; the stored token is that of the last page
\* parsed, so that a failed request leaves it as it was.
C20_TokenProtocol ==
    /\ \A k \in PageRequests :
        /\ calls[k].sent = LastTokenBefore(k)
        /\ ParsedBefore(k) # {} => calls[k].sent # None
    /\ next_page_token = LastTokenBefore(Len(calls) + 1)
    /\ page_done <=> (ParsedBefore(Len(calls) + 1) # {} /\ next_page_token = None)

\* A page with a token, a failed request carrying that token, and the
\* same token sent again; the page it gets has the next token.
C20_Witness ==
    /\ Len(calls) = 3
    /\ calls[1].sent = None
    /\ calls[1].resp = Page(<<P100>>, Some("t1"))
    /\ calls[2].sent = Some("t1")
    /\ calls[2].resp = TransportErr
    /\ calls[3].sent = Some("t1")
    /\ calls[3].resp = Page(<<P250, P100>>, Some("t2"))
    /\ next_page_token = Some("t2")


\* ------------------------------------------------------------------------
\* find_sequence (utils.rs), used by download_ff_zip to find the 7z
\* signature in the installer
\* ------------------------------------------------------------------------

MaxHaystack == 3
MaxNeedle == 2

Bytes == {55, 122}

RECURSIVE ByteStrings(_)
ByteStrings(n) ==
    IF n = 0 THEN {<<>>}
    ELSE LET shorter == ByteStrings(n - 1) IN
         shorter \cup {Append(b, c) : b \in {x \in shorter : Len(x) = n - 1}, c \in Bytes}

Returned(v) == [kind |-> "returned", value |-> v]
Panicked == [kind |-> "panic", value |-> None]

\* A usize is written as an integer: a natural number stands for itself and
\* a negative k for 2^64 + k, the values a small subtraction wraps to.
\* Sums and differences of such representatives are exact modulo 2^64.
UsizeSub(a, b) == [overflow |-> a < b, value |-> a - b]

UsizeLess(a, b) == IF (a >= 0) = (b >= 0) THEN a < b ELSE a >= 0

\* (0..end).find(|&i| haystack[i..i + needle.len()] == needle[..]) from i on:
\* the slice panics when its end lies behind the haystack.
RECURSIVE FindIndexFrom(_, _, _, _)
FindIndexFrom(hay, ndl, i, end) ==
    IF ~UsizeLess(i, end) THEN Returned(None)
    ELSE IF i + Len(ndl) > Len(hay) THEN Panicked
    ELSE IF SubSeq(hay, i + 1, i + Len(ndl)) = ndl THEN Returned(Some(i))
    ELSE FindIndexFrom(hay, ndl, i + 1, end)

\* haystack.len() - needle.len() + 1 panics on the subtraction in a build
\* with overflow checks and wraps in a build without them.
find_sequence(hay, ndl, overflow_checks) ==
    LET diff == UsizeSub(Len(hay), Len(ndl)) IN
    IF diff.overflow /\ overflow_checks THEN Panicked
    ELSE FindIndexFrom(hay, ndl, 0, diff.value + 1)

SeqInit ==
    /\ haystack \in ByteStrings(MaxHaystack)
    /\ needle \in ByteStrings(MaxNeedle)
    /\ seq_ret = NotCalled
    /\ FindIdle /\ HistIdle /\ PageIdle /\ InitIdle /\ MatchIdle /\ RunIdle /\ VerIdle /\ FfIdle

FindSequence(overflow_checks) ==
    /\ seq_ret = NotCalled
    /\ seq_ret' = find_sequence(haystack, needle, overflow_checks)
    /\ UNCHANGED <<haystack, needle, verVars, ffVars, findVars, histVars, pageVars, initVars,
                   matchVars, runVars>>

SeqNext == \E overflow_checks \in BOOLEAN : FindSequence(overflow_checks)

SpecSeq == SeqInit /\ [][SeqNext]_vars

OccursAt(i) ==
    /\ i + Len(needle) <= Len(haystack)
    /\ \A k \in 1..Len(needle) : haystack[i + k] = needle[k]

\* C32: find_sequence returns the smallest index at which the needle occurs
\* in the haystack and None when it does not occur, for every haystack and
\* needle, a haystack shorter than the needle included.
C32_FindSequenceSmallestIndex ==
    seq_ret # NotCalled =>
        LET occurrences == {i \in 0..Len(haystack) : OccursAt(i)} IN
        IF occurrences = {} THEN seq_ret = Returned(None)
        ELSE \E i \in occurrences :
                /\ \A j \in occurrences : i <= j
                /\ seq_ret = Returned(Some(i))

\* The same for a haystack at least as long as the needle.
SeqLongEnough == (Len(haystack) >= Len(needle)) => C32_FindSequenceSmallestIndex


\* ------------------------------------------------------------------------
\* ChromiumVersion (version.rs) and find_latest_version (main.rs)
\* ------------------------------------------------------------------------

MaxVersions == 3

\* 1.2.3.4, 1.10.0.0, 1.9.0.5, 01.+2.3.4, 1.2.x.4 and 1.2.3.
ListStrings ==
    {<<"1", ".", "2", ".", "3", ".", "4">>,
     <<"1", ".", "1", "0", ".", "0", ".", "0">>,
     <<"1", ".", "9", ".", "0", ".", "5">>,
     <<"0", "1", ".", "+", "2", ".", "3", ".", "4">>,
     <<"1", ".", "2", ".", "x", ".", "4">>,
     <<"1", ".", "2", ".", "3">>}

\* Also 1.2.3.4.5, 1..3.4, 1.2.3.-4, 18446744073709551616.0.0.0, the empty
\* string and 1.2.3.4 with a trailing dot.
VersionStrings ==
    ListStrings \cup
    {<<"1", ".", "2", ".", "3", ".", "4", ".", "5">>,
     <<"1", ".", ".", "3", ".", "4">>,
     <<"1", ".", "2", ".", "3", ".", "-", "4">>,
     <<"1", "8", "4", "4", "6", "7", "4", "4", "0", "7", "3", "7", "0", "9", "5",
       "5", "1", "6", "1", "6", ".", "0", ".", "0", ".", "0">>,
     <<>>,
     <<"1", ".", "2", ".", "3", ".", "4", ".">>}

Versions == [1..4 -> {0, 10}] \cup {<<1, 2, 3, 4>>, <<120, 0, 6099, 216>>}

VersionInit ==
    /\ ver_str \in VersionStrings
    /\ ver_parsed = NotCalled
    /\ ver_formatted = None
    /\ ver_list \in SeqsUpTo(ListStrings, MaxVersions)
    /\ latest_version = NotCalled
    /\ FindIdle /\ HistIdle /\ PageIdle /\ InitIdle /\ MatchIdle /\ RunIdle /\ SeqIdle /\ FfIdle

notVerVars == <<findVars, histVars, pageVars, initVars, matchVars, runVars, seqVars, ffVars>>

\* ChromiumVersion::from_str(ver_str)
FromStr ==
    /\ ver_parsed = NotCalled
    /\ ver_parsed' = Returned(ChromiumVersion_from_str(ver_str))
    /\ UNCHANGED <<ver_str, ver_formatted, ver_list, latest_version, notVerVars>>

\* v.to_string(): its text is what from_str is given next.
VersionToString(v) ==
    /\ ver_parsed = NotCalled
    /\ ver_formatted = None
    /\ ver_formatted' = Some(v)
    /\ ver_str' = ChromiumVersion_to_string(v)
    /\ UNCHANGED <<ver_parsed, ver_list, latest_version, notVerVars>>

\* find_latest_version(ver_list)
FindLatest ==
    /\ latest_version = NotCalled
    /\ latest_version' = Returned(find_latest_version(ver_list))
    /\ UNCHANGED <<ver_str, ver_parsed, ver_formatted, ver_list, notVerVars>>

VersionNext == FromStr \/ FindLatest \/ \E v \in Versions : VersionToString(v)

SpecVersion == VersionInit /\ [][VersionNext]_vars

\* The text of an unsigned integer that fits a usize: digits, after one
\* optional '+'.
IsUnsigned(seg) ==
    LET d == IF seg # <<>> /\ seg[1] = "+" THEN Tail(seg) ELSE seg IN
    /\ d # <<>>
    /\ \A i \in 1..Len(d) : IsDigit(d[i])
    /\ ~Overflows(d)

FourUnsigned(s) ==
    /\ Cardinality({i \in 1..Len(s) : s[i] = "."}) = 3
    /\ \A k \in 1..4 : IsUnsigned(Split(s, ".")[k])

\* a <= b in the lexicographic order of (major, minor, branch, patch).
LexLeq(a, b) ==
    \/ a = b
    \/ \E k \in 1..4 : a[k] < b[k] /\ \A j \in 1..(k - 1) : a[j] = b[j]

Parsable(list) ==
    {v \in {ChromiumVersion_from_str(list[i]) : i \in 1..Len(list)} : v # None}

FromStrIffFourUnsigned ==
    ver_parsed # NotCalled =>
        IF FourUnsigned(ver_str)
        THEN /\ ver_parsed.kind = "returned"
             /\ ver_parsed.value # None
             /\ \A k \in 1..4 :
                    Some(ver_parsed.value[1][k]) = ParseUsize(Split(ver_str, ".")[k])
        ELSE ver_parsed = Returned(None)

RoundTrip ==
    (ver_formatted # None /\ ver_parsed # NotCalled) => ver_parsed = Returned(ver_formatted)

LatestIsGreatest ==
    latest_version # NotCalled =>
        IF Parsable(ver_list) = {} THEN latest_version = Returned(None)
        ELSE /\ latest_version.kind = "returned"
             /\ latest_version.value \in Parsable(ver_list)
             /\ \A v \in Parsable(ver_list) : LexLeq(v[1], latest_version.value[1])

\* C33: from_str succeeds exactly on strings of four '.'-separated segments
\* that each parse as an unsigned integer; from_str(to_string(v)) = Ok(v)
\* for every version v; find_latest_version returns the greatest version
\* of the list that parses, in (major, minor, branch, patch) order, and
\* None when no element parses.
C33_VersionParsingAndLatest == FromStrIffFourUnsigned /\ RoundTrip /\ LatestIsGreatest

\* 120.0.6099.216 was formatted and parsed back; the list holds 1.9.0.5, a
\* string that does not parse and 1.10.0.0, and 1.10.0.0 was returned.
C33_Witness ==
    /\ ver_formatted = Some(<<120, 0, 6099, 216>>)
    /\ ver_str = <<"1", "2", "0", ".", "0", ".", "6", "0", "9", "9", ".", "2", "1", "6">>
    /\ ver_parsed = Returned(Some(<<120, 0, 6099, 216>>))
    /\ ver_list = <<<<"1", ".", "1", "0", ".", "0", ".", "0">>,
                    <<"1", ".", "2", ".", "x", ".", "4">>,
                    <<"1", ".", "9", ".", "0", ".", "5">>>>
    /\ latest_version = Returned(Some(<<1, 10, 0, 0>>))

\* ------------------------------------------------------------------------
\* Firefox: FirefoxVersionSpider, download_ff_zip and download_ff (ff/mod.rs)
\* ------------------------------------------------------------------------

\* char::is_numeric
IsNumeric(ch) == IsDigit(ch) \/ ch = SuperTwo

\* u32::MAX = 4294967295, as its decimal digits.
U32MaxDigits == <<"4", "2", "9", "4", "9", "6", "7", "2", "9", "5">>

\* str::parse::<u32>().is_ok(): digits after at most one '+', denoting at
\* most u32::MAX.
ParsesAsU32(s) ==
    LET Fits(z) ==
            ~(Len(z) > Len(U32MaxDigits)
                \/ (Len(z) = Len(U32MaxDigits) /\ DigitsGreater(z, U32MaxDigits)))
        AllDigits(d) == (\A i \in 1..Len(d) : IsDigit(d[i])) /\ Fits(StripZeros(d))
    IN  /\ s # <<>>
        /\ ~(Len(s) = 1 /\ s[1] \in {"+", "-"})
        /\ AllDigits(IF s[1] = "+" THEN Tail(s) ELSE s)

\* is_valid_version: the first two '.'-separated segments parse as u32.
is_valid_version(version) ==
    LET Valid(split) ==
            Len(split) >= 2 /\ ParsesAsU32(split[1]) /\ ParsesAsU32(split[2])
    IN  Valid(Split(version, "."))

\* The characters of the release names in the order of their UTF-8 bytes.
ByteOrder ==
    <<" ", "+", "-", ".", "/">> \o Digits
        \o <<"a", "b", "c", "d", "e", "f", "g", "h", "i", "j", "k", "l", "m",
              "n", "o", "p", "q", "r", "s", "t", "u", "v", "w", "x", "y", "z">>
        \o <<SuperTwo, EAcute>>

Rank(ch) == CHOOSE i \in 1..Len(ByteOrder) : ByteOrder[i] = ch

\* a.cmp(b) == Ordering::Less for two strings.
RECURSIVE StrLess(_, _)
StrLess(a, b) ==
    IF b = <<>> THEN FALSE
    ELSE IF a = <<>> THEN TRUE
    ELSE IF Head(a) # Head(b) THEN Rank(Head(a)) < Rank(Head(b))
    ELSE StrLess(Tail(a), Tail(b))

\* a.chars().all(|ch| ch == '.' || ch.is_numeric())
PureNum(a) == \A i \in 1..Len(a) : a[i] = "." \/ IsNumeric(a[i])

\* The comparator of find's sort_by gives Ordering::Less.
SpiderLess(a, b) == IF PureNum(a) = PureNum(b) THEN StrLess(a, b) ELSE PureNum(a)

\* matched_list.sort_by(..): a stable sort.
RECURSIVE InsertByName(_, _)
InsertByName(sorted, x) ==
    IF sorted = <<>> THEN <<x>>
    ELSE IF SpiderLess(x, Head(sorted)) THEN <<x>> \o sorted
    ELSE <<Head(sorted)>> \o InsertByName(Tail(sorted), x)

RECURSIVE SortByName(_)
SortByName(list) ==
    IF list = <<>> THEN <<>>
    ELSE InsertByName(SortByName(SubSeq(list, 1, Len(list) - 1)), list[Len(list)])

\* The filter closure of find: v starts with version and the character
\* after it, if any, is not numeric.
SpiderMatches(v, version) ==
    LET NotNumeric(ch) == ch = None \/ ~IsNumeric(ch[1])
    IN  StartsWith(v, version) /\ NotNumeric(CharsNth(v, Len(version)))

\* FirefoxVersionSpider::find
FirefoxVersionSpider_find(releases, version) ==
    SortByName(SelectSeq(releases, LAMBDA v : SpiderMatches(v, version)))

\* str::trim_end_matches('/')
RECURSIVE TrimEndSlashes(_)
TrimEndSlashes(t) ==
    IF t # <<>> /\ t[Len(t)] = "/" THEN TrimEndSlashes(Front(t)) ELSE t

\* The releases of a listing page: the text of each link without the
\* slashes at its end, when it is a valid version.
ReleasesOf(links) ==
    SelectSeq([i \in 1..Len(links) |-> TrimEndSlashes(links[i])], is_valid_version)

\* Path::exists: the path leads to a directory or a file.
Exists(f, path) ==
    LET IsFile(t) == t.kind = "ok" /\ FileAt(f, t.at) # {}
    IN  IsDirectory(f, path) \/ (NamesEntry(path) /\ IsFile(Locate(f, path)))

\* f without what is under dir, dir included.
Without(f, dir) ==
    [dirs |-> {d \in f.dirs : ~IsUnder(d, dir)},
     files |-> {x \in f.files : ~IsUnder(x.path, dir)}]

\* The trees a removal of dir that failed can leave: some directories and
\* files under dir are gone, each directory with everything under it, and
\* dir is still there.
PartlyRemoved(f, dir) ==
    LET below == {d \in f.dirs : IsUnder(d, dir) /\ d # dir}
        Gone(ds, xs) ==
            /\ \A d \in ds : \A e \in below : IsUnder(e, d) => e \in ds
            /\ \A d \in ds : \A x \in f.files : IsUnder(x.path, d) => x \in xs
    IN  {[dirs |-> f.dirs \ ds, files |-> f.files \ xs] :
            <<ds, xs>> \in {p \in (SUBSET below) \X (SUBSET {x \in f.files : IsUnder(x.path, dir)}) :
                               Gone(p[1], p[2])}}

\* std::fs::remove_dir_all(path): an error when the path does not lead to a
\* directory. What is in the directory is removed and then the directory,
\* by its path. When the path led there through one of the directories
\* just removed, it no longer leads anywhere: the directory stays, and
\* remove_dir_all takes a directory that is not found for removed. When
\* the path still leads there, the directory is removed, which is an error
\* for a path that ends in "." or ".." or is the root. A filesystem that
\* refuses a removal leaves the rest.
RemoveDirAllOutcomes(f, path, io) ==
    LET Emptied(dir) == [Without(f, dir) EXCEPT !.dirs = @ \cup {dir}]
        Last(dir, g) ==
            IF ~IsDirectory(g, path) THEN {[ok |-> TRUE, fs |-> g]}
            ELSE IF NamesEntry(path) THEN {[ok |-> TRUE, fs |-> Without(f, dir)]}
            ELSE {[ok |-> FALSE, fs |-> g]}
        At(dir) ==
            IF io # "ok" THEN {[ok |-> FALSE, fs |-> g] : g \in PartlyRemoved(f, dir)}
            ELSE Last(dir, Emptied(dir))
    IN  IF ~IsDirectory(f, path) THEN {[ok |-> FALSE, fs |-> f]}
        ELSE At(Walk(f, path).at)

\* std::fs::remove_file(path): the path has to lead to a file.
RemoveFile(f, path) ==
    LET At(t) ==
            IF NamesEntry(path) /\ t.kind = "ok" /\ FileAt(f, t.at) # {}
            THEN [ok |-> TRUE, fs |-> [f EXCEPT !.files = @ \ FileAt(f, t.at)]]
            ELSE [ok |-> FALSE, fs |-> f]
    IN  At(Locate(f, path))

\* cur_dir.join(format!(".tmp-firefox-{matched_version}"))
FfBasePath(v) == Join(<<Cwd>>, <<".", "t", "m", "p", "-", "f", "i", "r", "e", "f", "o", "x", "-">> \o v)
\* cur_dir.join(format!("firefox-{matched_version}"))
FfPath(v) == Join(<<Cwd>>, <<"f", "i", "r", "e", "f", "o", "x", "-">> \o v)
\* cur_dir.join(format!("Firefox Setup {version}.exe"))
FfExePath(v) == Join(<<Cwd>>, <<"F", "i", "r", "e", "f", "o", "x", " ", "S", "e", "t", "u", "p", " ">> \o v \o <<".", "e", "x", "e">>)
\* base_path.join("core")
FfCorePath(v) == Join(FfBasePath(v), <<"c", "o", "r", "e">>)
\* base_path.join("setup.exe")
FfSetupPath(v) == Join(FfBasePath(v), <<"s", "e", "t", "u", "p", ".", "e", "x", "e">>)

\* b"7z\xbc\xaf\x27\x1c"
FfSignature == <<55, 122, 188, 175, 39, 28>>

\* A response to the request for the installer: its body, a status that is
\* not a success, or a transport failure.
FfBody(bytes) == [kind |-> "body", bytes |-> bytes]
FfStatusErr == [kind |-> "status_err", bytes |-> <<>>]
FfTransportErr == [kind |-> "transport_err", bytes |-> <<>>]

\* download_ff_zip: the body from the signature on. Without the signature
\* the body is saved as cwd/Firefox Setup <version>.exe, and whether or not
\* that went well, the call returns an error.
download_ff_zip(f, version, resp, overflow_checks, io) ==
    LET Sliced(index_of_sig) ==
            IF index_of_sig.kind = "panic" THEN [kind |-> "panic", zip |-> None, fs |-> f]
            ELSE IF index_of_sig.value = None
            THEN [kind |-> "err", zip |-> None,
                  fs |-> OpenAndCopy(f, FfExePath(version), resp.bytes, io, Plenty).fs]
            ELSE [kind |-> "ok", fs |-> f,
                  zip |-> Some(SubSeq(resp.bytes, index_of_sig.value[1] + 1, Len(resp.bytes)))]
    IN  IF <<Cwd>> \notin f.dirs \/ resp.kind # "body" THEN [kind |-> "err", zip |-> None, fs |-> f]
        ELSE Sliced(find_sequence(resp.bytes, FfSignature, overflow_checks))

\* uncompress_archive(zip_content, base_path, Ownership::Preserve) of the
\* compress_tools crate, entry by entry: a directory entry is created with
\* the directories above it, a file entry is written after the directories
\* above it were created. An entry that cannot be put there ends the call
\* with an error, what was put there before stays.
RECURSIVE Unpack(_, _, _)
Unpack(f, base, entries) ==
    LET Rest(r) == IF r.ok THEN Unpack(r.fs, base, Tail(entries)) ELSE [ok |-> FALSE, fs |-> r.fs]
        InParent(path, made) ==
            IF made.ok THEN WriteFile(made.fs, path, Head(entries).data) ELSE made
        Put(path) ==
            IF IsDir(Head(entries).name) THEN CreateDirAll(f, path)
            ELSE InParent(path, CreateDirAll(f, Front(path)))
    IN  IF entries = <<>> THEN [ok |-> TRUE, fs |-> f]
        ELSE Rest(Put(Join(base, Head(entries).name)))

\* --- inputs of the Firefox specification ---

V12 == <<"1", ".", "2">>
V12b == <<"1", ".", "2", ".", "b">>
V120 == <<"1", ".", "2", "0">>
V12Sup == <<"1", ".", "2", SuperTwo>>

\* The texts of the links of the listing page.
FfLinks == {V12 \o <<"/">>, V12b \o <<"/">>, V120 \o <<"/">>, <<".", ".", "/">>}

MaxLinks == 2

FfListings == {FfTransportErr} \cup {FfBody(l) : l \in SeqsUpTo(FfLinks, MaxLinks)}

FfCaches == {CacheAbsent, CacheCorrupt, CacheList(<<V120, V12Sup, V12b, V12>>)}

FfQueries == {V12, <<"1">>, <<"9">>}

\* Bodies of the installer: empty, shorter than the signature by one byte,
\* as long as the signature without holding it, and holding it after two
\* bytes.
FfBodies ==
    {<<>>, <<77, 90, 144, 0, 3>>, <<77, 90, 144, 0, 3, 0>>, <<77, 90>> \o FfSignature \o <<1>>}

FfInstallers == {FfTransportErr, FfStatusErr} \cup {FfBody(b) : b \in FfBodies}

\* What the archive holds: nothing; core/ with a file in it and setup.exe;
\* setup.exe alone.
FfArchives ==
    {<<>>,
     <<Entry(<<"c", "o", "r", "e", "/">>, ""), Entry(<<"c", "o", "r", "e", "/", "a">>, "B1"), Entry(<<"s", "e", "t", "u", "p", ".", "e", "x", "e">>, "B2")>>,
     <<Entry(<<"s", "e", "t", "u", "p", ".", "e", "x", "e">>, "B2")>>}

\* Before the call: the working directory with nothing in it; with the
\* firefox-1.2 of an earlier call; with a file of that name; with what a
\* call that failed left in .tmp-firefox-1.2.
FfFilesystems ==
    {StartFs,
     [dirs |-> StartFs.dirs \cup {FfPath(V12)},
      files |-> {[path |-> Append(FfPath(V12), <<"o", "l", "d">>), data |-> "old"]}],
     [StartFs EXCEPT !.files = {[path |-> FfPath(V12), data |-> "old"]}],
     [dirs |-> StartFs.dirs \cup {FfBasePath(V12), FfCorePath(V12)},
      files |-> {[path |-> Append(FfCorePath(V12), <<"o", "l", "d">>), data |-> "old"]}]}

FirefoxInit ==
    /\ ff_state = "start"
    /\ ff_cache \in FfCaches
    /\ ff_query \in FfQueries
    /\ ff_releases = <<>>
    /\ ff_matched = None
    /\ ff_zip = None
    /\ stream = <<>>
    /\ ex_state = "idle"
    /\ ex_pos = 0
    /\ prefix = <<>>
    /\ version_list = <<>>
    /\ fs0 \in FfFilesystems
    /\ fs = fs0
    /\ writes = <<>>
    /\ extractor = "idle"
    /\ ex_err = None
    /\ FindIdle /\ HistIdle /\ PageIdle /\ InitIdle /\ MatchIdle /\ SeqIdle /\ VerIdle

notFfVars ==
    <<stream, ex_state, ex_pos, prefix, version_list, fs0, writes, extractor, ex_err,
      findVars, histVars, pageVars, initVars, matchVars, seqVars, verVars>>

\* current_dir()?, then FirefoxVersionSpider::init. get_cached_file_path
\* gives the path of the cache file or an error. The file exists: the
\* releases are read from it. It does not: the listing page is requested,
\* the releases are its valid versions, and they are written to the cache
\* file.
SpiderInit(env, listing, written) ==
    /\ ff_state = "start"
    /\ IF <<Cwd>> \notin fs.dirs
       THEN ff_state' = "io_err" /\ UNCHANGED <<ff_cache, ff_releases>>
       ELSE IF env # "ok"
       THEN ff_state' = "env_err" /\ UNCHANGED <<ff_cache, ff_releases>>
       ELSE IF ff_cache.kind = "list"
       THEN ff_state' = "spider" /\ ff_releases' = ff_cache.list /\ UNCHANGED ff_cache
       ELSE IF ff_cache.kind = "corrupt"
       THEN ff_state' = "format_err" /\ UNCHANGED <<ff_cache, ff_releases>>
       ELSE IF listing.kind # "body"
       THEN ff_state' = "transport_err" /\ UNCHANGED <<ff_cache, ff_releases>>
       ELSE IF written = "ok"
       THEN /\ ff_state' = "spider"
            /\ ff_releases' = ReleasesOf(listing.bytes)
            /\ ff_cache' = CacheList(ReleasesOf(listing.bytes))
       ELSE /\ ff_state' = "io_err"
            /\ ff_cache' = IF written = "partial" THEN CacheCorrupt ELSE ff_cache
            /\ UNCHANGED ff_releases
    /\ UNCHANGED <<ff_query, ff_matched, ff_zip, fs, notFfVars>>

\* spider.find(version).first().ok_or_else(..)?
SpiderFind ==
    /\ ff_state = "spider"
    /\ \E matched_version_list \in {FirefoxVersionSpider_find(ff_releases, ff_query)} :
        IF matched_version_list = <<>>
        THEN ff_state' = "no_match" /\ UNCHANGED ff_matched
        ELSE ff_state' = "matched" /\ ff_matched' = Some(matched_version_list[1])
    /\ UNCHANGED <<ff_cache, ff_query, ff_releases, ff_zip, fs, notFfVars>>

\* download_ff_zip(matched_version, "win64"), and after its error
\* download_ff_zip(matched_version, "win32"), whose error is returned.
DownloadFfZip(resp, overflow_checks, io) ==
    /\ ff_state \in {"matched", "retry"}
    /\ \E r \in {download_ff_zip(fs, ff_matched[1], resp, overflow_checks, io)} :
        /\ ff_state' = IF r.kind = "ok" THEN "zipped"
                       ELSE IF r.kind = "panic" THEN "panic"
                       ELSE IF ff_state = "matched" THEN "retry" ELSE "zip_err"
        /\ ff_zip' = r.zip
        /\ fs' = r.fs
    /\ UNCHANGED <<ff_cache, ff_query, ff_releases, ff_matched, notFfVars>>

\* create_dir_all(&base_path)?
FfCreateBase(io) ==
    /\ ff_state = "zipped"
    /\ \E r \in {MakeDirs(fs, FfBasePath(ff_matched[1]), io, Plenty)} :
        /\ ff_state' = IF r.ok THEN "unpack" ELSE "io_err"
        /\ fs' = r.fs
    /\ UNCHANGED <<ff_cache, ff_query, ff_releases, ff_matched, ff_zip, notFfVars>>

\* uncompress_archive(..)?: the archive holds entries, of which the first n
\* are unpacked; the call is a success only when all of them were.
FfUncompress(entries, n, ok) ==
    /\ ff_state = "unpack"
    /\ n \in 0..Len(entries)
    /\ ok => n = Len(entries)
    /\ \E r \in {Unpack(fs, FfBasePath(ff_matched[1]), SubSeq(entries, 1, n))} :
        /\ ff_state' = IF ok /\ r.ok THEN "unpacked" ELSE "unpack_err"
        /\ fs' = r.fs
    /\ UNCHANGED <<ff_cache, ff_query, ff_releases, ff_matched, ff_zip, notFfVars>>

\* if ff_path.exists() { remove_dir_all(&ff_path)? }
FfRemoveOld(io) ==
    /\ ff_state = "unpacked"
    /\ IF Exists(fs, FfPath(ff_matched[1]))
       THEN \E r \in RemoveDirAllOutcomes(fs, FfPath(ff_matched[1]), io) :
            /\ ff_state' = IF r.ok THEN "rename" ELSE "io_err"
            /\ fs' = r.fs
       ELSE ff_state' = "rename" /\ fs' = fs
    /\ UNCHANGED <<ff_cache, ff_query, ff_releases, ff_matched, ff_zip, notFfVars>>

\* rename(base_path.join("core"), ff_path)?
FfRename(io) ==
    /\ ff_state = "rename"
    /\ \E r \in {IF io = "ok" THEN Rename(fs, FfCorePath(ff_matched[1]), FfPath(ff_matched[1]))
                 ELSE [ok |-> FALSE, fs |-> fs]} :
        /\ ff_state' = IF r.ok THEN "renamed" ELSE "io_err"
        /\ fs' = r.fs
    /\ UNCHANGED <<ff_cache, ff_query, ff_releases, ff_matched, ff_zip, notFfVars>>

\* if base_path.exists() { remove_dir_all(&base_path)? }
FfRemoveBase(io) ==
    /\ ff_state = "renamed"
    /\ IF Exists(fs, FfBasePath(ff_matched[1]))
       THEN \E r \in RemoveDirAllOutcomes(fs, FfBasePath(ff_matched[1]), io) :
            /\ ff_state' = IF r.ok THEN "cleaned" ELSE "io_err"
            /\ fs' = r.fs
       ELSE ff_state' = "cleaned" /\ fs' = fs
    /\ UNCHANGED <<ff_cache, ff_query, ff_releases, ff_matched, ff_zip, notFfVars>>

\* if setup_path.exists() { remove_file(setup_path)? }; Ok(())
FfRemoveSetup(io) ==
    /\ ff_state = "cleaned"
    /\ IF Exists(fs, FfSetupPath(ff_matched[1]))
       THEN \E r \in {IF io = "ok" THEN RemoveFile(fs, FfSetupPath(ff_matched[1]))
                      ELSE [ok |-> FALSE, fs |-> fs]} :
            /\ ff_state' = IF r.ok THEN "ok" ELSE "io_err"
            /\ fs' = r.fs
       ELSE ff_state' = "ok" /\ fs' = fs
    /\ UNCHANGED <<ff_cache, ff_query, ff_releases, ff_matched, ff_zip, notFfVars>>

FirefoxNext ==
    \/ \E env \in {"ok", "fail"}, listing \in FfListings, written \in WriteOutcomes :
           SpiderInit(env, listing, written)
    \/ SpiderFind
    \/ \E resp \in FfInstallers, overflow_checks \in BOOLEAN, io \in {"ok", "fail", "fail_copy"} :
           DownloadFfZip(resp, overflow_checks, io)
    \/ \E io \in {"ok", "fail"} : FfCreateBase(io)
    \/ \E entries \in FfArchives :
           \E n \in 0..Len(entries), ok \in BOOLEAN : FfUncompress(entries, n, ok)
    \/ \E io \in {"ok", "fail"} : FfRemoveOld(io)
    \/ \E io \in {"ok", "fail"} : FfRename(io)
    \/ \E io \in {"ok", "fail"} : FfRemoveBase(io)
    \/ \E io \in {"ok", "fail"} : FfRemoveSetup(io)

SpecFirefox == FirefoxInit /\ [][FirefoxNext]_vars

====
